---- MODULE Spec2Model ----
(***************************************************************************)
(* A model of aviator-parser-ts: the tree-walking interpreter with its     *)
(* scope chain and closures, the script entry points, the Pratt parser's   *)
(* binding powers and the pending-execution engine.                        *)
(***************************************************************************)
EXTENDS Integers, Sequences, FiniteSets, TLC

VARIABLES
    pc,         \* position of the driver of that component
    source,     \* the script (or expression) under execution
    handle,     \* statement list bound by AviatorScript.compile
    interp,     \* the Interpreter instance of the last run
    result,     \* value returned by the last entry-point call
    runs,       \* number of handle.execute calls made so far
    history,    \* contexts and results of the handle.execute calls
    pending,    \* the pending-execution tree the factory compiled
    before,     \* that tree as it was before the last call on it
    calls,      \* the calls made on the tree: their number, the last one
                \* and the values execute() returned
    promise,    \* what execute() returned when canExecute() first held
    tokenizer,  \* the AviatorLexer a host reads tokens from
    emitted,    \* the tokens that lexer has returned, each with the position
                \* of its first character
    analyzer    \* the StaticAnalyzer instance of the host

scriptVars == <<handle, interp, result, runs, history>>
pendingVars == <<pending, before, calls, promise>>
toolVars == <<tokenizer, emitted, analyzer>>
vars == <<pc, source, scriptVars, pendingVars, toolVars>>

(***************************************************************************)
(* Bounds of the model.                                                    *)
(***************************************************************************)
MaxLit == 10     \* largest number literal of a script
MaxLen == 3      \* longest sequence a loop of a script walks
MaxCalls == 3    \* most calls of one closure in a script
MaxRuns == 2     \* most handle.execute calls on one compiled script
MaxOps == 5      \* most calls on one pending-execution tree
MaxText == 4     \* longest text handed to a lexer of its own
MaxAnalyses == 1 \* most analyze calls on one StaticAnalyzer
MaxReuse == 2    \* most analyze calls on one StaticAnalyzer that is used again

(***************************************************************************)
(* Runtime values.  Every value is a record tagged by t.                   *)
(***************************************************************************)
Undefined == [t |-> "undef"]
Nil == [t |-> "nil"]
NaN == [t |-> "nan"]
NumV(n) == [t |-> "num", n |-> n]
BoolV(b) == [t |-> "bool", b |-> b]
ListV(items) == [t |-> "list", items |-> items]
\* a Map, as the sequence of its entries in insertion order
MapV(entries) == [t |-> "map", entries |-> entries]
\* the object literal { key, value }
EntryV(key, value) == [t |-> "object", key |-> key, value |-> value]
Throw(msg) == [t |-> "throw", msg |-> msg]

IsThrow(v) == v.t = "throw"

\* new ControlFlowSignal(type, value)
ControlFlowSignal(type, value) == [t |-> "sig", type |-> type, value |-> value]

\* x instanceof ControlFlowSignal
IsSignal(v) == v.t = "sig"

\* JavaScript ToBoolean, as used by if (...), while (...), &&, ||, !
Truthy(v) ==
    CASE v.t = "bool" -> v.b
      [] v.t = "num" -> v.n # 0
      [] v.t \in {"undef", "nil", "nan"} -> FALSE
      [] OTHER -> TRUE

(***************************************************************************)
(* Expression and statement trees.                                         *)
(***************************************************************************)
Leaf(type, lexeme) == [k |-> "Leaf", type |-> type, lexeme |-> lexeme]
Node1(op, a) == [k |-> "Node", op |-> op, operands |-> <<a>>]
Node2(op, a, b) == [k |-> "Node", op |-> op, operands |-> <<a, b>>]
Node3(op, a, b, c) == [k |-> "Node", op |-> op, operands |-> <<a, b, c>>]
FunctionCall(func, args) == [k |-> "FunctionCall", func |-> func, args |-> args]
LambdaFunction(parameters, body) ==
    [k |-> "LambdaFunction", parameters |-> parameters, body |-> body]

Id(name) == Leaf("IDENTIFIER", name)
Num(n) == Leaf("NUMBER", ToString(n))

\* Number(token.lexeme) for the decimal literals of the model
Number(lexeme) == CHOOSE n \in 0..MaxLit : ToString(n) = lexeme

ExprStmt(expr) == [k |-> "ExprStmt", expr |-> expr]
LetStmt(name, initializer) == [k |-> "LetStmt", name |-> name, initializer |-> initializer]
IfStmt(condition, thenBranch, elsifBranches, hasElse, elseBranch) ==
    [k |-> "IfStmt", condition |-> condition, thenBranch |-> thenBranch,
     elsifBranches |-> elsifBranches, hasElse |-> hasElse, elseBranch |-> elseBranch]
WhileStmt(condition, body) == [k |-> "WhileStmt", condition |-> condition, body |-> body]
ForStmt(indexVar, itemVar, iterable, body) ==
    [k |-> "ForStmt", indexVar |-> indexVar, itemVar |-> itemVar,
     iterable |-> iterable, body |-> body]
FnStmt(name, params, body) == [k |-> "FnStmt", name |-> name, params |-> params, body |-> body]
ReturnStmt(hasValue, value) == [k |-> "ReturnStmt", hasValue |-> hasValue, value |-> value]
BreakStmt == [k |-> "BreakStmt"]
ContinueStmt == [k |-> "ContinueStmt"]
BlockStmt(statements) == [k |-> "BlockStmt", statements |-> statements]

\* the absent index variable of a single-name for loop (indexVar: null)
NoIndex == ""

(***************************************************************************)
(* Interpreter: scopes.  A scope is an index into heap; parent 0 is null.  *)
(* A result of an evaluation is the value (or thrown error) together with  *)
(* the interpreter state after it.                                         *)
(***************************************************************************)
Ret(v, I) == [v |-> v, I |-> I]

Put(m, key, value) ==
    [x \in (DOMAIN m) \cup {key} |-> IF x = key THEN value ELSE m[x]]

Log(I, event) == [I EXCEPT !.trace = Append(@, event)]

\* new Interpreter(context)
Interpreter(context) ==
    [globalScope |-> 1, currentScope |-> 1,
     heap |-> <<[parent |-> 0, variables |-> context]>>,
     trace |-> <<>>]

define(I, name, value) ==
    [I EXCEPT !.heap[I.currentScope].variables = Put(@, name, value)]

RECURSIVE FindScope(_, _, _)
FindScope(I, scope, name) ==
    IF scope = 0 THEN 0
    ELSE IF name \in DOMAIN I.heap[scope].variables THEN scope
    ELSE FindScope(I, I.heap[scope].parent, name)

\* an assign that creates the missing binding in the global scope
assign_global(I, name, value) ==
    LET scope == FindScope(I, I.currentScope, name) IN
    IF scope # 0
    THEN [I EXCEPT !.heap[scope].variables = Put(@, name, value)]
    ELSE [I EXCEPT !.heap[I.globalScope].variables = Put(@, name, value)]

assign(I, name, value) ==
    LET scope == FindScope(I, I.currentScope, name) IN
    IF scope # 0
    THEN [I EXCEPT !.heap[scope].variables = Put(@, name, value)]
    ELSE [I EXCEPT !.heap[I.currentScope].variables = Put(@, name, value)]

resolveIdentifier(I, name) ==
    LET scope == FindScope(I, I.currentScope, name) IN
    IF scope # 0 THEN I.heap[scope].variables[name] ELSE Undefined

\* a withNewScope that drops its parentScope argument
withNewScope_enter_callerParent(I, parentScope) ==
    LET scope == Len(I.heap) + 1 IN
    Log([I EXCEPT !.heap = Append(@, [parent |-> I.currentScope, variables |-> << >>]),
                  !.currentScope = scope],
        [ev |-> "enter", previous |-> I.currentScope, scope |-> scope,
         requested |-> parentScope])

\* withNewScope, first half: remember nothing here (the caller keeps
\* previousScope) and make a fresh scope current, child of parentScope if one
\* is given (parentScope || previousScope), of the current scope otherwise.
withNewScope_enter(I, parentScope) ==
    LET scope == Len(I.heap) + 1
        parent == IF parentScope # 0 THEN parentScope ELSE I.currentScope
    IN  Log([I EXCEPT !.heap = Append(@, [parent |-> parent, variables |-> << >>]),
                      !.currentScope = scope],
            [ev |-> "enter", previous |-> I.currentScope, scope |-> scope,
             requested |-> parentScope])

\* a withNewScope that restores the scope after fn() instead of in a finally
withNewScope_noFinally(r, previousScope) ==
    LET J == IF IsThrow(r.v) THEN r.I ELSE [r.I EXCEPT !.currentScope = previousScope] IN
    Ret(r.v, Log(J, [ev |-> "exit", previous |-> previousScope,
                     current |-> J.currentScope, how |-> r.v.t]))

\* withNewScope, second half: the finally clause, run on every outcome r of fn()
withNewScope_finally(r, previousScope) ==
    LET J == [r.I EXCEPT !.currentScope = previousScope] IN
    Ret(r.v, Log(J, [ev |-> "exit", previous |-> previousScope,
                     current |-> J.currentScope, how |-> r.v.t]))

(***************************************************************************)
(* Interpreter: operators of evaluateNode on the values of the model.      *)
(* Operand kinds no script of the model produces are left undefined.       *)
(***************************************************************************)
\* JavaScript ToNumber
ToNum(v) ==
    CASE v.t = "num" -> v
      [] v.t = "bool" -> NumV(IF v.b THEN 1 ELSE 0)
      [] v.t = "nil" -> NumV(0)
      [] v.t \in {"undef", "nan"} -> NaN

Arith(op, left, right) ==
    LET l == ToNum(left)
        r == ToNum(right)
    IN  IF l.t = "nan" \/ r.t = "nan" THEN NaN
        ELSE CASE op = "ADD" -> NumV(l.n + r.n)
               [] op = "SUBTRACT" -> NumV(l.n - r.n)
               [] op = "MULTIPLY" -> NumV(l.n * r.n)
               [] op = "MOD" -> IF r.n = 0 THEN NaN
                                ELSE IF l.n >= 0 THEN NumV(l.n % r.n)
                                ELSE NumV(-((-l.n) % r.n))

Compare(op, left, right) ==
    LET l == ToNum(left)
        r == ToNum(right)
    IN  IF l.t = "nan" \/ r.t = "nan" THEN BoolV(FALSE)
        ELSE CASE op = "GREATER_THAN" -> BoolV(l.n > r.n)
               [] op = "GREATER_THAN_EQUAL" -> BoolV(l.n >= r.n)
               [] op = "LESS_THAN" -> BoolV(l.n < r.n)
               [] op = "LESS_THAN_EQUAL" -> BoolV(l.n <= r.n)

\* left == right (loose equality) on primitives
LooseEq(left, right) ==
    CASE left.t \in {"nil", "undef"} -> right.t \in {"nil", "undef"}
      [] right.t \in {"nil", "undef"} -> FALSE
      [] left.t = "nan" \/ right.t = "nan" -> FALSE
      [] left.t \in {"num", "bool"} /\ right.t \in {"num", "bool"} ->
            ToNum(left).n = ToNum(right).n

ArithOps == {"ADD", "SUBTRACT", "MULTIPLY", "MOD"}
CompareOps == {"GREATER_THAN", "GREATER_THAN_EQUAL", "LESS_THAN", "LESS_THAN_EQUAL"}

\* the switch (op.type) of a binary node once both operands are values
BinaryOp(op, left, right) ==
    CASE op \in ArithOps -> Arith(op, left, right)
      [] op \in CompareOps -> Compare(op, left, right)
      [] op = "EQUAL" -> BoolV(LooseEq(left, right))
      [] op = "NOT_EQUAL" -> BoolV(~LooseEq(left, right))
      [] op = "LEFT_BRACKET" ->
            IF left.t = "list" /\ right.t = "num"
               /\ right.n + 1 \in 1..Len(left.items)
            THEN left.items[right.n + 1]
            ELSE Undefined

(***************************************************************************)
(* The built-in catalogue of DefaultAviatorRuntime (the part the scripts   *)
(* of the model call).                                                     *)
(***************************************************************************)
BuiltinNames == {"tuple", "seq.list", "seq.map", "range", "identity"}

builtinFunctions == [n \in BuiltinNames |-> [t |-> "fn", impl |-> "builtin", name |-> n]]

RECURSIVE rangeItems(_, _)
rangeItems(start, end) ==
    IF start < end THEN <<NumV(start)>> \o rangeItems(start + 1, end) ELSE << >>

\* map.set(key, value): the value of an entry with that key, or a new last entry
mapSet(entries, key, value) ==
    IF \E i \in DOMAIN entries : entries[i].key = key
    THEN [i \in DOMAIN entries |->
             IF entries[i].key = key THEN [key |-> key, value |-> value] ELSE entries[i]]
    ELSE Append(entries, [key |-> key, value |-> value])

RECURSIVE mapOf(_, _, _)
\* for (let i = 0; i < args.length; i += 2) map.set(args[i], args[i + 1])
mapOf(args, i, entries) ==
    IF i > Len(args) THEN MapV(entries)
    ELSE mapOf(args, i + 2,
               mapSet(entries, args[i], IF i + 1 <= Len(args) THEN args[i + 1] ELSE Undefined))

ApplyBuiltin(name, args) ==
    CASE name \in {"tuple", "seq.list"} -> ListV(args)
      [] name = "seq.map" -> mapOf(args, 1, << >>)
      [] name = "identity" -> IF Len(args) >= 1 THEN args[1] ELSE Undefined
      [] name = "range" -> ListV(rangeItems(args[1].n, args[2].n))

\* { ...builtinFunctions, ...context }
Spread(builtins, context) ==
    [x \in (DOMAIN builtins) \cup (DOMAIN context) |->
        IF x \in DOMAIN context THEN context[x] ELSE builtins[x]]

(***************************************************************************)
(* Interpreter: expressions and statements.                                *)
(***************************************************************************)
\* A method call on the JavaScript call stack: a call of one method of the
\* interpreter, the lexer or the parser by another goes through invoke, which
\* runs the body of the method.
RECURSIVE invoke(_)

\* interpreter.evaluate(expr)
evaluate(expr, I) == invoke([method |-> "evaluate", expr |-> expr, I |-> I])
\* stmt.execute(interpreter)
execute(stmt, I) == invoke([method |-> "execute", stmt |-> stmt, I |-> I])
\* interpreter.executeStatements(statements)
executeStatements(statements, I) ==
    invoke([method |-> "executeStatements", statements |-> statements, I |-> I])
\* interpreter.executeBlock(statements)
executeBlock(statements, I) ==
    invoke([method |-> "executeBlock", statements |-> statements, I |-> I])
\* func.apply(null, args)
Apply(func, args, I) ==
    invoke([method |-> "apply", func |-> func, args |-> args, I |-> I])

RECURSIVE evaluateArgs(_, _, _, _)

evaluateLeaf(leaf, I) ==
    CASE leaf.type = "NUMBER" -> Ret(NumV(Number(leaf.lexeme)), I)
      [] leaf.type = "TRUE" -> Ret(BoolV(TRUE), I)
      [] leaf.type = "FALSE" -> Ret(BoolV(FALSE), I)
      [] leaf.type = "NIL" -> Ret(Nil, I)
      [] leaf.type = "IDENTIFIER" -> Ret(resolveIdentifier(I, leaf.lexeme), I)

handleAssignment(leftExpr, rightExpr, I) ==
    LET right == evaluate(rightExpr, I) IN
    IF IsThrow(right.v) THEN right
    ELSE IF leftExpr.k = "Leaf" /\ leftExpr.type = "IDENTIFIER"
    THEN Ret(right.v, assign(right.I, leftExpr.lexeme, right.v))
    ELSE IF leftExpr.k = "Node" /\ leftExpr.op \in {"DOT", "LEFT_BRACKET"}
    THEN LET obj == evaluate(leftExpr.operands[1], right.I)
             key == IF leftExpr.op = "DOT" \/ IsThrow(obj.v) THEN obj
                    ELSE evaluate(leftExpr.operands[2], obj.I)
         IN  IF IsThrow(key.v) THEN key
             \* no value of the model is a mutable object
             ELSE CASE obj.v.t \notin {"list", "map", "object"} ->
                         Ret(Throw("Invalid assignment target"), key.I)
    ELSE Ret(Throw("Invalid assignment target"), right.I)

evaluateNode(node, I) ==
    LET op == node.op
        operands == node.operands
    IN
    IF Len(operands) = 1 THEN
        LET val == evaluate(operands[1], I) IN
        IF IsThrow(val.v) THEN val
        ELSE CASE op = "SUBTRACT" -> Ret(Arith("SUBTRACT", NumV(0), val.v), val.I)
               [] op = "LOGIC_NOT" -> Ret(BoolV(~Truthy(val.v)), val.I)
               [] OTHER -> Ret(Throw("Unknown unary operator"), val.I)
    ELSE IF Len(operands) = 2 THEN
        IF op = "ASSIGN" THEN handleAssignment(operands[1], operands[2], I)
        ELSE
        LET left == evaluate(operands[1], I) IN
        IF IsThrow(left.v) THEN left
        ELSE IF op = "DOT" THEN
            \* left[lexeme]: the objects with named fields are the { key, value }
            CASE left.v.t = "object" ->
                    Ret(CASE operands[2].k = "Leaf" /\ operands[2].type = "IDENTIFIER"
                                /\ operands[2].lexeme = "key" -> left.v.key
                          [] operands[2].k = "Leaf" /\ operands[2].type = "IDENTIFIER"
                                /\ operands[2].lexeme = "value" -> left.v.value
                          [] OTHER -> Undefined,
                        left.I)
              [] left.v.t \notin {"list", "object"} -> Ret(Undefined, left.I)
        ELSE IF op = "LOGIC_AND" THEN
            IF Truthy(left.v) THEN evaluate(operands[2], left.I) ELSE left
        ELSE IF op = "LOGIC_OR" THEN
            IF Truthy(left.v) THEN left ELSE evaluate(operands[2], left.I)
        ELSE
        LET right == evaluate(operands[2], left.I) IN
        IF IsThrow(right.v) THEN right
        ELSE Ret(BinaryOp(op, left.v, right.v), right.I)
    ELSE \* Len(operands) = 3 /\ op = "CONDITIONAL"
        LET condition == evaluate(operands[1], I) IN
        IF IsThrow(condition.v) THEN condition
        ELSE IF Truthy(condition.v) THEN evaluate(operands[2], condition.I)
        ELSE evaluate(operands[3], condition.I)

RECURSIVE flattenName(_)
\* the dotted name of an identifier chain, or "" (null)
flattenName(expr) ==
    IF expr.k = "Leaf" /\ expr.type = "IDENTIFIER" THEN expr.lexeme
    ELSE IF expr.k = "Node" /\ expr.op = "DOT"
    THEN LET left == flattenName(expr.operands[1])
             right == expr.operands[2]
         IN  IF left # "" /\ right.k = "Leaf" /\ right.type = "IDENTIFIER"
             THEN left \o "." \o right.lexeme
             ELSE ""
    ELSE ""

evaluateArgs(args, i, acc, I) ==
    IF i > Len(args) THEN Ret(ListV(acc), I)
    ELSE LET arg == evaluate(args[i], I) IN
         IF IsThrow(arg.v) THEN arg
         ELSE evaluateArgs(args, i + 1, Append(acc, arg.v), arg.I)

evaluateFunctionCall(call, I) ==
    LET flatName == flattenName(call.func)
        found == IF flatName # "" THEN resolveIdentifier(I, flatName) ELSE Undefined
        func == IF Truthy(found) THEN Ret(found, I) ELSE evaluate(call.func, I)
    IN  IF IsThrow(func.v) THEN func
        ELSE LET args == evaluateArgs(call.args, 1, << >>, func.I) IN
             IF IsThrow(args.v) THEN args
             ELSE IF func.v.t = "fn" THEN Apply(func.v, args.v.items, args.I)
             ELSE Ret(Throw("Expression is not a function"), args.I)

evaluateLambda(lambda, I) ==
    Ret([t |-> "fn", impl |-> "lambda", params |-> lambda.parameters,
         body |-> lambda.body, closureScope |-> I.currentScope], I)

Interpreter_evaluate(expr, I) ==
    CASE expr.k = "Leaf" -> evaluateLeaf(expr, I)
      [] expr.k = "Node" -> evaluateNode(expr, I)
      [] expr.k = "FunctionCall" -> evaluateFunctionCall(expr, I)
      [] expr.k = "LambdaFunction" -> evaluateLambda(expr, I)

\* the function value made by FnStmt.execute through createFunction
createFunction(params, body, I) ==
    [t |-> "fn", impl |-> "fn", params |-> params, body |-> body,
     closureScope |-> I.currentScope]

RECURSIVE bindParameters(_, _, _, _)
\* params.forEach((param, i) => this.define(param, args[i]))
bindParameters(params, args, i, I) ==
    IF i > Len(params) THEN I
    ELSE bindParameters(params, args, i + 1,
            define(I, params[i], IF i <= Len(args) THEN args[i] ELSE Undefined))

\* the body of the arrow function returned by createFunction
fnBody(func, args, I) ==
    LET r == executeStatements(func.body, bindParameters(func.params, args, 1, I)) IN
    IF IsSignal(r.v) /\ r.v.type = "return" THEN Ret(r.v.value, r.I) ELSE r

\* the body of the arrow function returned by evaluateLambda
lambdaBody(func, args, I) ==
    evaluate(func.body, bindParameters(func.params, args, 1, I))

\* the function behind func.apply: a builtin of the runtime, or the arrow
\* function of createFunction or evaluateLambda under withNewScope
Function_apply(func, args, I) ==
    CASE func.impl = "builtin" -> Ret(ApplyBuiltin(func.name, args), I)
      [] func.impl = "fn" ->
            withNewScope_finally(
                fnBody(func, args, withNewScope_enter(I, func.closureScope)),
                I.currentScope)
      [] func.impl = "lambda" ->
            withNewScope_finally(
                lambdaBody(func, args, withNewScope_enter(I, func.closureScope)),
                I.currentScope)

RECURSIVE executeFrom(_, _, _, _)
\* an executeStatements without the instanceof ControlFlowSignal test
executeFrom_noPropagation(statements, i, lastValue, I) ==
    IF i > Len(statements) THEN Ret(lastValue, I)
    ELSE LET r == execute(statements[i], I) IN
         IF IsThrow(r.v) THEN r
         ELSE executeFrom(statements, i + 1, r.v, r.I)

executeFrom(statements, i, lastValue, I) ==
    IF i > Len(statements) THEN Ret(lastValue, I)
    ELSE LET r == execute(statements[i], I) IN
         IF IsThrow(r.v) THEN r
         ELSE IF IsSignal(r.v) THEN r
         ELSE executeFrom(statements, i + 1, r.v, r.I)

Interpreter_executeStatements(statements, I) == executeFrom(statements, 1, Nil, I)

Interpreter_executeBlock(statements, I) ==
    withNewScope_finally(
        executeStatements(statements, withNewScope_enter(I, 0)),
        I.currentScope)

RECURSIVE elsifFrom(_, _, _)
\* for (const elsif of this.elsifBranches) ..., then the else branch
elsifFrom(stmt, i, I) ==
    IF i > Len(stmt.elsifBranches)
    THEN IF stmt.hasElse THEN executeBlock(stmt.elseBranch, I) ELSE Ret(Nil, I)
    ELSE LET c == evaluate(stmt.elsifBranches[i].condition, I) IN
         IF IsThrow(c.v) THEN c
         ELSE IF Truthy(c.v) THEN executeBlock(stmt.elsifBranches[i].body, c.I)
         ELSE elsifFrom(stmt, i + 1, c.I)

IfStmt_execute(stmt, I) ==
    LET c == evaluate(stmt.condition, I) IN
    IF IsThrow(c.v) THEN c
    ELSE IF Truthy(c.v) THEN executeBlock(stmt.thenBranch, c.I)
    ELSE elsifFrom(stmt, 1, c.I)

RECURSIVE WhileStmt_loop(_, _, _)
\* one turn of while (interpreter.evaluate(this.condition)) { ... }
WhileStmt_loop(stmt, lastValue, I) ==
    LET c == evaluate(stmt.condition, I) IN
    IF IsThrow(c.v) THEN c
    ELSE IF ~Truthy(c.v) THEN Ret(lastValue, c.I)
    ELSE LET b == executeBlock(stmt.body, c.I) IN
         IF IsThrow(b.v) THEN b
         ELSE IF IsSignal(b.v) THEN
              CASE b.v.type = "break" -> Ret(Nil, b.I)
                [] b.v.type = "continue" -> WhileStmt_loop(stmt, Nil, b.I)
                [] b.v.type = "return" -> b
         ELSE WhileStmt_loop(stmt, b.v, b.I)

RECURSIVE ForStmt_loop(_, _, _, _, _, _)
\* one turn of for (const item of seq) in the branch for arrays, sets, lists;
\* pos counts the items already taken from the iterator, index is the local
\* variable of ForStmt.execute
ForStmt_loop(stmt, items, pos, index, lastValue, I) ==
    IF pos >= Len(items) THEN Ret(lastValue, I)
    ELSE
    LET I1 == IF stmt.indexVar # NoIndex THEN define(I, stmt.indexVar, NumV(index)) ELSE I
        I2 == define(I1, stmt.itemVar, items[pos + 1])
        I3 == IF stmt.indexVar # NoIndex
              THEN Log(I2, [ev |-> "iter", position |-> pos,
                            index |-> resolveIdentifier(I2, stmt.indexVar)])
              ELSE I2
        b == executeBlock(stmt.body, I3)
    IN  IF IsThrow(b.v) THEN b
        ELSE IF IsSignal(b.v) THEN
             CASE b.v.type = "break" -> Ret(Nil, b.I)
               [] b.v.type = "continue" ->
                     ForStmt_loop(stmt, items, pos + 1, index, Nil, b.I)
               [] b.v.type = "return" -> b
        ELSE ForStmt_loop(stmt, items, pos + 1, index + 1, b.v, b.I)

RECURSIVE ForStmt_mapLoop(_, _, _, _, _)
\* one turn of for (const [key, value] of seq) in the branch for a Map
ForStmt_mapLoop(stmt, entries, pos, lastValue, I) ==
    IF pos >= Len(entries) THEN Ret(lastValue, I)
    ELSE
    LET key == entries[pos + 1].key
        value == entries[pos + 1].value
        I1 == define(I, stmt.itemVar,
                     IF stmt.indexVar # NoIndex THEN EntryV(key, value) ELSE EntryV(key, value))
        I2 == IF stmt.indexVar # NoIndex THEN define(I1, stmt.indexVar, key) ELSE I1
        b == executeBlock(stmt.body, I2)
    IN  IF IsThrow(b.v) THEN b
        ELSE IF IsSignal(b.v) THEN
             CASE b.v.type = "break" -> Ret(Nil, b.I)
               [] b.v.type = "continue" -> ForStmt_mapLoop(stmt, entries, pos + 1, Nil, b.I)
               [] b.v.type = "return" -> b
        ELSE ForStmt_mapLoop(stmt, entries, pos + 1, b.v, b.I)

ForStmt_execute(stmt, I) ==
    LET seq == evaluate(stmt.iterable, I) IN
    IF IsThrow(seq.v) THEN seq
    ELSE IF seq.v.t \notin {"list", "map"}
    THEN Ret(Throw("Expression is not iterable"), seq.I)
    ELSE IF seq.v.t = "map" THEN ForStmt_mapLoop(stmt, seq.v.entries, 0, Nil, seq.I)
    ELSE ForStmt_loop(stmt, seq.v.items, 0, 0, Nil, seq.I)

Stmt_execute(stmt, I) ==
    CASE stmt.k = "ExprStmt" -> evaluate(stmt.expr, I)
      [] stmt.k = "LetStmt" ->
            LET value == evaluate(stmt.initializer, I) IN
            IF IsThrow(value.v) THEN value
            ELSE Ret(Nil, define(value.I, stmt.name, value.v))
      [] stmt.k = "IfStmt" -> IfStmt_execute(stmt, I)
      [] stmt.k = "WhileStmt" -> WhileStmt_loop(stmt, Nil, I)
      [] stmt.k = "ForStmt" -> ForStmt_execute(stmt, I)
      [] stmt.k = "FnStmt" ->
            Ret(Nil, define(I, stmt.name, createFunction(stmt.params, stmt.body, I)))
      [] stmt.k = "ReturnStmt" ->
            IF stmt.hasValue
            THEN LET val == evaluate(stmt.value, I) IN
                 IF IsThrow(val.v) THEN val
                 ELSE Ret(ControlFlowSignal("return", val.v), val.I)
            ELSE Ret(ControlFlowSignal("return", Nil), I)
      [] stmt.k = "BreakStmt" -> Ret(ControlFlowSignal("break", Undefined), I)
      [] stmt.k = "ContinueStmt" -> Ret(ControlFlowSignal("continue", Undefined), I)
      [] stmt.k = "BlockStmt" -> executeBlock(stmt.statements, I)

(***************************************************************************)
(* ScriptParser, at the level of statement forms: a source is the sequence *)
(* of its statement forms, an expression statement carrying whether a `;`  *)
(* follows it.  (The token-level grammar of expressions is Pratt below.)   *)
(***************************************************************************)
SrcExpr(expr, semi) == [k |-> "SrcExpr", expr |-> expr, semi |-> semi]

\* ScriptParser.expressionStatement: new ExprStmt(expr, hasSemi), where the
\* constructor of ExprStmt declares the single parameter expr
expressionStatement(item) ==
    LET expr == item.expr
        hasSemi == item.semi
    IN  ExprStmt(expr)

RECURSIVE block(_)
RECURSIVE statement(_)

statement(item) ==
    CASE item.k = "SrcExpr" -> expressionStatement(item)
      [] item.k = "IfStmt" ->
            IfStmt(item.condition, block(item.thenBranch),
                   [i \in 1..Len(item.elsifBranches) |->
                       [condition |-> item.elsifBranches[i].condition,
                        body |-> block(item.elsifBranches[i].body)]],
                   item.hasElse, block(item.elseBranch))
      [] item.k = "WhileStmt" -> WhileStmt(item.condition, block(item.body))
      [] item.k = "ForStmt" ->
            ForStmt(item.indexVar, item.itemVar, item.iterable, block(item.body))
      [] item.k = "FnStmt" -> FnStmt(item.name, item.params, block(item.body))
      [] item.k = "BlockStmt" -> BlockStmt(block(item.statements))
      [] item.k \in {"LetStmt", "ReturnStmt", "BreakStmt", "ContinueStmt"} -> item

block(items) == [i \in 1..Len(items) |-> statement(items[i])]

\* ScriptParser.parse
parse(code) == [i \in 1..Len(code) |-> statement(code[i])]

(***************************************************************************)
(* AviatorScript: the two entry points.                                    *)
(***************************************************************************)
AviatorScript_execute(code, context) ==
    executeStatements(parse(code), Interpreter(Spread(builtinFunctions, context)))

AviatorScript_compile(code) == parse(code)

\* a handle whose Interpreter is made once and kept between runs
handle_execute_keepInterpreter(statements, context, previous) ==
    executeStatements(statements,
        [previous EXCEPT !.heap[1].variables =
            Spread(Spread(builtinFunctions, @), context)])

\* the execute of the handle returned by compile; previous is the Interpreter
\* the preceding run of the handle left behind
handle_execute(statements, context, previous) ==
    executeStatements(statements, Interpreter(Spread(builtinFunctions, context)))

(***************************************************************************)
(* AviatorLexer.  A code is the sequence of its characters, each a string  *)
(* of length one; the lexer is the record of its code, its cursor, its     *)
(* line and its last token, and every scanner returns the lexer with       *)
(* lastToken set to the token it returns.  The column of the lexer is left *)
(* out: it is only ever written into the message of a thrown error.        *)
(***************************************************************************)
Token(type, lexeme, start, end, line) ==
    [type |-> type, lexeme |-> lexeme, start |-> start, end |-> end, line |-> line]

\* charAt past the end of the code gives the character code 0
NUL == "NUL"

Digit == {"0", "1", "2", "3", "4", "5", "6", "7", "8", "9"}
HexDigit == Digit \cup {"a", "b", "c", "d", "e", "f", "A", "B", "C", "D", "E", "F"}
Alpha ==
    {"a", "b", "c", "d", "e", "f", "g", "h", "i", "j", "k", "l", "m",
     "n", "o", "p", "q", "r", "s", "t", "u", "v", "w", "x", "y", "z",
     "A", "B", "C", "D", "E", "F", "G", "H", "I", "J", "K", "L", "M",
     "N", "O", "P", "Q", "R", "S", "T", "U", "V", "W", "X", "Y", "Z"}
WhiteSpace == {" ", "\t", "\f", "\n", "\r"}
EOL == {"\n", "\r"}

isIdentifierStart(ch) == ch \in Alpha \cup {"_"}
isIdentifierRest(ch) == ch \in Alpha \cup Digit \cup {"_"}
isStringLiteralStart(ch) == ch \in {"'", "\""}

KEYWORDS_MAP ==
    [if |-> "IF", else |-> "ELSE", elsif |-> "ELSE_IF", for |-> "FOR", in |-> "IN",
     while |-> "WHILE", break |-> "BREAK", continue |-> "CONTINUE",
     return |-> "RETURN", try |-> "TRY", catch |-> "CATCH", finally |-> "FINALLY",
     throw |-> "THROW", fn |-> "FN", lambda |-> "LAMBDA", end |-> "END",
     true |-> "TRUE", false |-> "FALSE", nil |-> "NIL", let |-> "LET",
     new |-> "NEW", use |-> "USE"]

\* a slash after a right bracket is not a division
validTransferFrom_noBracket ==
    [DIVIDE |-> {"NUMBER", "IDENTIFIER", "RIGHT_PAREN"},
     DOT |-> {"IDENTIFIER", "RIGHT_BRACKET", "RIGHT_PAREN"}]

validTransferFrom ==
    [DIVIDE |-> {"NUMBER", "IDENTIFIER", "RIGHT_PAREN", "RIGHT_BRACKET"},
     DOT |-> {"IDENTIFIER", "RIGHT_BRACKET", "RIGHT_PAREN"}]
invalidTransferFrom ==
    [NUMBER |-> {"RIGHT_BRACKET", "RIGHT_PAREN", "IDENTIFIER"}]

AviatorLexer(code) ==
    [code |-> code, cursor |-> -1, line |-> 1, lastToken |-> Token("EOF", "", 0, 0, 1)]

\* LexerState.expect
expect(L, type) ==
    IF type \in DOMAIN validTransferFrom
    THEN L.lastToken.type \in validTransferFrom[type]
    ELSE IF type \in DOMAIN invalidTransferFrom
    THEN L.lastToken.type \notin invalidTransferFrom[type]
    ELSE TRUE

charAt(L, cursor) == IF cursor >= Len(L.code) THEN NUL ELSE L.code[cursor + 1]
currentChar(L) == charAt(L, L.cursor)
peek(L) == charAt(L, L.cursor + 1)
hasNext(L) == peek(L) # NUL
nextChar(L) == [L EXCEPT !.cursor = @ + 1]
newLine(L) == [L EXCEPT !.line = @ + 1]

RECURSIVE substring(_, _, _)
\* this.code.substring(start, end)
substring(L, start, end) ==
    IF start >= end \/ start >= Len(L.code) THEN ""
    ELSE L.code[start + 1] \o substring(L, start + 1, end)

RECURSIVE untilMeet(_, _)
untilMeet(L, chs) ==
    IF peek(L) # NUL /\ peek(L) \notin chs THEN untilMeet(nextChar(L), chs) ELSE L

RECURSIVE untilNonMatch(_, _)
untilNonMatch(L, matcher) ==
    IF peek(L) # NUL /\ peek(L) \in matcher THEN untilNonMatch(nextChar(L), matcher) ELSE L

token(L, type, lexeme) ==
    [L EXCEPT !.lastToken =
        Token(type, lexeme, L.cursor + 1 - Len(lexeme), L.cursor + 1, L.line)]
createEofToken(L) ==
    [L EXCEPT !.lastToken = Token("EOF", "", L.cursor + 1, L.cursor + 1, L.line)]
numberToken(L, start, end) ==
    [L EXCEPT !.lastToken = Token("NUMBER", substring(L, start, end), start, end, L.line)]
regexToken(L, start) ==
    [L EXCEPT !.lastToken =
        Token("REGEX", substring(L, start, L.cursor + 1), start, L.cursor + 1, L.line)]
stringToken(L, start, end, str) ==
    [L EXCEPT !.lastToken = Token("STRING", str, start, end, L.line)]
\* a throw of the lexer: the token that is never returned.  Its message ends
\* with `at <line>:<column>`, and line is that line
LexerError(L, start, msg) ==
    [L EXCEPT !.lastToken = Token("Error", msg, start, L.cursor + 1, L.line)]

identifierToken(L, start, end) ==
    LET name == substring(L, start, end) IN
    [L EXCEPT !.lastToken =
        Token(IF name \in DOMAIN KEYWORDS_MAP THEN KEYWORDS_MAP[name] ELSE "IDENTIFIER",
              name, start, end, L.line)]

isCommentStart(L) == currentChar(L) = "#" /\ peek(L) = "#"

isNumberLiteralStart(L) ==
    \/ currentChar(L) \in Digit
    \/ currentChar(L) = "." /\ peek(L) \in Digit
    \/ currentChar(L) = "." /\ peek(L) \in {"e", "E"}

parseNextAnd(L) ==
    IF peek(L) = "&" THEN token(nextChar(L), "LOGIC_AND", "&&")
    ELSE token(L, "BIT_AND", "&")

parseNextOr(L) ==
    IF peek(L) = "|" THEN token(nextChar(L), "LOGIC_OR", "||")
    ELSE token(L, "BIT_OR", "|")

\* the token a scanner made before it skipped the white space up to L1
kept(tokenized, L1) == [L1 EXCEPT !.lastToken = tokenized.lastToken]

parseNextLessOrBitShiftLeft(L) ==
    LET L1 == untilNonMatch(L, WhiteSpace) IN
    IF peek(L1) = "=" THEN token(nextChar(L1), "LESS_THAN_EQUAL", "<=")
    ELSE IF peek(L1) = "<" THEN token(nextChar(L1), "SIGNED_BIT_SHIFT_LEFT", "<<")
    ELSE kept(token(L, "LESS_THAN", "<"), L1)

parseNextGreaterOrBitShiftRight(L) ==
    LET L1 == untilNonMatch(L, WhiteSpace) IN
    IF peek(L1) = "=" THEN token(nextChar(L1), "GREATER_THAN_EQUAL", ">=")
    ELSE IF peek(L1) = ">" THEN
        LET L2 == untilNonMatch(nextChar(L1), WhiteSpace) IN
        IF peek(L2) = ">" THEN token(nextChar(L2), "UNSIGNED_BIT_SHIFT_RIGHT", ">>>")
        ELSE kept(token(nextChar(L1), "SIGNED_BIT_SHIFT_RIGHT", ">>"), L2)
    ELSE kept(token(L, "GREATER_THAN", ">"), L1)

parseNextEqualLikeOrAssign(L) ==
    LET L1 == untilNonMatch(L, WhiteSpace) IN
    IF peek(L1) = "=" THEN token(nextChar(L1), "EQUAL", "==")
    ELSE IF peek(L1) = "~" THEN token(nextChar(L1), "LIKE", "=~")
    ELSE kept(token(L, "ASSIGN", "="), L1)

parseNextNotOrNotEqual(L) ==
    LET L1 == untilNonMatch(L, WhiteSpace) IN
    IF peek(L1) = "=" THEN token(nextChar(L1), "NOT_EQUAL", "!=")
    ELSE kept(token(L, "LOGIC_NOT", "!"), L1)

tokenSubtractOrArrow(L) ==
    LET L1 == untilNonMatch(L, WhiteSpace) IN
    IF peek(L1) = ">" THEN token(nextChar(L1), "ARROW", "->")
    ELSE kept(token(L, "SUBTRACT", "-"), L1)

parseMultiplyOrPower(L) ==
    LET L1 == untilNonMatch(L, WhiteSpace) IN
    IF peek(L1) = "*" THEN token(nextChar(L1), "POW", "**")
    ELSE kept(token(L, "MULTIPLY", "*"), L1)

parseNextNumberLiteral(L) ==
    LET start == L.cursor IN
    IF currentChar(L) = "0" /\ peek(L) \in {"x", "X"}
    THEN LET hex == untilNonMatch(nextChar(nextChar(L)), HexDigit) IN
         numberToken(hex, start, hex.cursor + 1)
    ELSE
    LET int == untilNonMatch(L, Digit)
        frac == IF peek(int) = "." THEN untilNonMatch(nextChar(int), Digit) ELSE int
        sign == nextChar(nextChar(frac))
        exp == IF peek(frac) \in {"e", "E"}
               THEN untilNonMatch(IF currentChar(sign) \in {"-", "+"}
                                  THEN nextChar(sign) ELSE sign, Digit)
               ELSE frac
        suffix == IF peek(exp) \in {"N", "M"} THEN nextChar(exp) ELSE exp
    IN  numberToken(suffix, start, suffix.cursor + 1)

\* assertObjectAccessValid and assertObjectAccessEnd never throw: no character
\* of an identifier is a dot
parseNextIdentifier(L) ==
    LET end == untilNonMatch(L, Alpha \cup Digit \cup {"_"}) IN
    identifierToken(end, L.cursor, end.cursor + 1)

parseNextRegexLiteral(L) ==
    LET start == L.cursor
        body == untilMeet(nextChar(L), {"/", "\n", "\r"})
        end == IF peek(body) # NUL /\ peek(body) \notin EOL THEN nextChar(body) ELSE body
    IN  IF currentChar(end) # "/" THEN LexerError(end, start, "Invalid regex syntax")
        ELSE regexToken(end, start)

RECURSIVE stringContent(_, _, _)
\* the while loop of parseNextStringLiteral
stringContent(L, quote, content) ==
    IF peek(L) # quote /\ peek(L) \notin EOL /\ peek(L) # NUL
    THEN LET L1 == nextChar(L) IN
         IF currentChar(L1) = "\\"
         THEN stringContent(nextChar(L1), quote,
                            content \o "\\" \o currentChar(nextChar(L1)))
         ELSE stringContent(L1, quote, content \o currentChar(L1))
    ELSE [L |-> L, content |-> content]

parseNextStringLiteral(L) ==
    LET quote == currentChar(L)
        start == L.cursor
        scan == stringContent(L, quote, "")
        end == nextChar(scan.L)
    IN  IF currentChar(end) # quote THEN LexerError(end, start, "Invalid string syntax")
        ELSE stringToken(end, start, end.cursor + 1, quote \o scan.content \o quote)

Punctuation ==
    [c \in {"(", ")", "[", "]", "{", "}", ".", "?", ":", ",", ";"} |->
        CASE c = "(" -> "LEFT_PAREN" [] c = ")" -> "RIGHT_PAREN"
          [] c = "[" -> "LEFT_BRACKET" [] c = "]" -> "RIGHT_BRACKET"
          [] c = "{" -> "LEFT_BRACE" [] c = "}" -> "RIGHT_BRACE"
          [] c = "." -> "DOT" [] c = "?" -> "CONDITIONAL" [] c = ":" -> "COLON"
          [] c = "," -> "COMMA" [] c = ";" -> "SEMICOLON"]

RECURSIVE AviatorLexer_next(_)
\* AviatorLexer.next: the lexer after its next token, which is its lastToken
AviatorLexer_next(L0) ==
    IF ~hasNext(L0) THEN createEofToken(L0)
    ELSE
    LET L == nextChar(L0)
        ch == currentChar(L)
    IN  IF ch = "\n" THEN AviatorLexer_next(newLine(L))
        ELSE IF isCommentStart(L) THEN AviatorLexer_next(untilMeet(L, {"\n"}))
        ELSE IF isNumberLiteralStart(L) /\ expect(L, "NUMBER") THEN parseNextNumberLiteral(L)
        ELSE IF isIdentifierStart(ch) THEN parseNextIdentifier(L)
        ELSE IF isStringLiteralStart(ch) THEN parseNextStringLiteral(L)
        ELSE IF ch = "&" THEN parseNextAnd(L)
        ELSE IF ch = "|" THEN parseNextOr(L)
        ELSE IF ch = "<" THEN parseNextLessOrBitShiftLeft(L)
        ELSE IF ch = ">" THEN parseNextGreaterOrBitShiftRight(L)
        ELSE IF ch = "=" THEN parseNextEqualLikeOrAssign(L)
        ELSE IF ch = "!" THEN parseNextNotOrNotEqual(L)
        ELSE IF ch = "+" THEN token(L, "ADD", "+")
        ELSE IF ch = "-" THEN tokenSubtractOrArrow(L)
        ELSE IF ch = "*" THEN parseMultiplyOrPower(L)
        ELSE IF ch = "/" /\ expect(L, "DIVIDE") THEN token(L, "DIVIDE", "/")
        ELSE IF ch = "/" /\ expect(L, "REGEX") THEN parseNextRegexLiteral(L)
        ELSE IF ch = "%" THEN token(L, "MOD", "%")
        ELSE IF ch = "^" THEN token(L, "BIT_XOR", "^")
        ELSE IF ch = "~" THEN token(L, "BIT_NOT", "~")
        ELSE IF ch \in DOMAIN Punctuation THEN token(L, Punctuation[ch], ch)
        ELSE AviatorLexer_next(L)

(***************************************************************************)
(* BindingPower.                                                           *)
(***************************************************************************)
INFIX_OPERATOR_LEFT_BINDING_POWER ==
    [ASSIGN |-> 6, CONDITIONAL |-> 2, LOGIC_OR |-> 3, LOGIC_AND |-> 5,
     BIT_OR |-> 6, BIT_XOR |-> 7, BIT_AND |-> 8, LIKE |-> 7,
     EQUAL |-> 9, NOT_EQUAL |-> 9,
     GREATER_THAN |-> 11, GREATER_THAN_EQUAL |-> 11, LESS_THAN |-> 11,
     LESS_THAN_EQUAL |-> 11,
     SIGNED_BIT_SHIFT_LEFT |-> 12, SIGNED_BIT_SHIFT_RIGHT |-> 12,
     UNSIGNED_BIT_SHIFT_RIGHT |-> 12,
     ADD |-> 13, SUBTRACT |-> 13, MOD |-> 15, MULTIPLY |-> 17, DIVIDE |-> 17,
     POW |-> 18, DOT |-> 19]

INFIX_OPERATOR_RIGHT_BINDING_POWER ==
    [ASSIGN |-> 0, CONDITIONAL |-> 1, LOGIC_OR |-> 4, LOGIC_AND |-> 6,
     BIT_OR |-> 7, BIT_XOR |-> 8, BIT_AND |-> 9, LIKE |-> 8,
     EQUAL |-> 10, NOT_EQUAL |-> 10,
     GREATER_THAN |-> 12, GREATER_THAN_EQUAL |-> 12, LESS_THAN |-> 12,
     LESS_THAN_EQUAL |-> 12,
     SIGNED_BIT_SHIFT_LEFT |-> 13, SIGNED_BIT_SHIFT_RIGHT |-> 13,
     UNSIGNED_BIT_SHIFT_RIGHT |-> 13,
     ADD |-> 14, SUBTRACT |-> 14, MOD |-> 16, MULTIPLY |-> 18, DIVIDE |-> 18,
     POW |-> 17, DOT |-> 20]

PREFIX_OPERATOR_BINDING_POWER == [SUBTRACT |-> 19, LOGIC_NOT |-> 19, BIT_NOT |-> 19]

POSTFIX_OPERATOR_BINDING_POWER == [LEFT_PAREN |-> 19, LEFT_BRACKET |-> 19]

isPostfix(op) == op.type \in DOMAIN POSTFIX_OPERATOR_BINDING_POWER
isInfix(op) == op.type \in DOMAIN INFIX_OPERATOR_LEFT_BINDING_POWER

\* a right binding power equal to the left one
infixRight_sameAsLeft(op) == INFIX_OPERATOR_LEFT_BINDING_POWER[op.type]

infixRight(op) == INFIX_OPERATOR_RIGHT_BINDING_POWER[op.type]

infixLeft(op) == INFIX_OPERATOR_LEFT_BINDING_POWER[op.type]
prefix(op) == PREFIX_OPERATOR_BINDING_POWER[op.type]
postfix(op) == POSTFIX_OPERATOR_BINDING_POWER[op.type]

(***************************************************************************)
(* Pratt.  The parser is the record of its lexer, its token, its lookahead *)
(* and the error thrown so far ("" while none is); a parsing method gives  *)
(* the expression it returns, or the error it throws, and the parser after *)
(* it.                                                                     *)
(***************************************************************************)
NoToken == Token("null", "", 0, 0, 0)
ParseError(msg) == [k |-> "Error", msg |-> msg]
IsError(e) == e.k = "Error"
Parsed(e, P) == [e |-> e, P |-> P]
Failed(P) == Parsed(ParseError(P.error), P)

Pratt(lexer) == [lexer |-> lexer, token |-> NoToken, lookahead |-> NoToken, error |-> ""]

\* Pratt.next; an error of the lexer goes through the parser
next(P) ==
    LET lexer == invoke([method |-> "AviatorLexer.next", lexer |-> P.lexer]) IN
    IF lexer.lastToken.type = "Error"
    THEN [P EXCEPT !.lexer = lexer, !.error = lexer.lastToken.lexeme]
    ELSE [P EXCEPT !.lexer = lexer, !.token = P.lookahead, !.lookahead = lexer.lastToken]

peekToken(P) == P.lookahead
tokenIs(P, type) == P.token.type = type
peekType(P, type) ==
    IF P.lookahead = NoToken THEN type = "EOF" ELSE P.lookahead.type = type

peekUnary(P) ==
    peekType(P, "SUBTRACT") \/ peekType(P, "LOGIC_NOT") \/ peekType(P, "BIT_NOT")

peekLeaf(P) ==
    \E type \in {"NUMBER", "IDENTIFIER", "STRING", "TRUE", "FALSE", "NIL", "REGEX"} :
        peekType(P, type)

eat(P, type) ==
    LET P1 == next(P) IN
    IF P1.error # "" THEN P1
    ELSE IF ~tokenIs(P1, type) THEN [P1 EXCEPT !.error = "Expect " \o type]
    ELSE P1

\* this.expr(ubp)
expr(ubp, P) == invoke([method |-> "Pratt.expr", ubp |-> ubp, parser |-> P])

subExpr(P) ==
    LET P1 == eat(P, "LEFT_PAREN")
        e == expr(0, P1)
        P2 == eat(e.P, "RIGHT_PAREN")
    IN  IF P1.error # "" THEN Failed(P1)
        ELSE IF IsError(e.e) THEN e
        ELSE IF P2.error # "" THEN Failed(P2)
        ELSE Parsed(e.e, P2)

leaf(P) ==
    LET P1 == next(P) IN
    IF P1.error # "" THEN Failed(P1)
    ELSE Parsed(Leaf(P1.token.type, P1.token.lexeme), P1)

RECURSIVE lambdaParameters(_, _)
\* the while loop of Pratt.lambda
lambdaParameters(P, parameters) ==
    IF tokenIs(P, "RIGHT_PAREN") THEN [P |-> P, parameters |-> parameters]
    ELSE LET P1 == next(P)
             pushed == Append(parameters, P1.token.lexeme)
             P2 == eat(P1, "COMMA")
         IN  IF P1.error # "" \/ peekType(P1, "RIGHT_PAREN")
             THEN [P |-> P1, parameters |-> pushed]
             ELSE IF P2.error # "" THEN [P |-> P2, parameters |-> pushed]
             ELSE lambdaParameters(P2, pushed)

lambda(P) ==
    LET P1 == eat(P, "LAMBDA")
        P2 == eat(P1, "LEFT_PAREN")
        ps == lambdaParameters(P2, << >>)
        P3 == eat(ps.P, "RIGHT_PAREN")
        P4 == eat(P3, "ARROW")
        body == expr(0, P4)
        P5 == eat(body.P, "END")
    IN  IF P1.error # "" THEN Failed(P1)
        ELSE IF P2.error # "" THEN Failed(P2)
        ELSE IF ps.P.error # "" THEN Failed(ps.P)
        ELSE IF P3.error # "" THEN Failed(P3)
        ELSE IF P4.error # "" THEN Failed(P4)
        ELSE IF IsError(body.e) THEN body
        ELSE IF P5.error # "" THEN Failed(P5)
        ELSE Parsed(LambdaFunction(ps.parameters, body.e), P5)

prefixExpr(P) ==
    LET P1 == next(P)
        op == P1.token
        right == expr(prefix(op), P1)
    IN  IF P1.error # "" THEN Failed(P1)
        ELSE IF IsError(right.e) THEN right
        ELSE Parsed(Node1(op.type, right.e), right.P)

primary(P) ==
    IF peekType(P, "LEFT_PAREN") THEN subExpr(P)
    ELSE IF peekLeaf(P) THEN leaf(P)
    ELSE IF peekUnary(P) THEN prefixExpr(P)
    ELSE IF peekType(P, "LAMBDA") THEN lambda(P)
    ELSE Parsed(ParseError("Unexpected primary token"), P)

conditional(left, op, P) ==
    LET thenExpr == expr(0, P)
        P1 == eat(thenExpr.P, "COLON")
        elseExpr == expr(infixRight(op), P1)
    IN  IF IsError(thenExpr.e) THEN thenExpr
        ELSE IF P1.error # "" THEN Failed(P1)
        ELSE IF IsError(elseExpr.e) THEN elseExpr
        ELSE Parsed(Node3(op.type, left, thenExpr.e, elseExpr.e), elseExpr.P)

infixExpr(left, op, P) ==
    LET P1 == next(P)
        right == expr(infixRight(op), P1)
    IN  IF P1.error # "" THEN Failed(P1)
        ELSE IF tokenIs(P1, "CONDITIONAL") THEN conditional(left, op, P1)
        ELSE IF IsError(right.e) THEN right
        ELSE Parsed(Node2(op.type, left, right.e), right.P)

objectAccess(left, op, P) ==
    LET subexpr == expr(0, P)
        P1 == eat(subexpr.P, "RIGHT_BRACKET")
    IN  IF IsError(subexpr.e) THEN subexpr
        ELSE IF P1.error # "" THEN Failed(P1)
        ELSE Parsed(Node2(op.type, left, subexpr.e), P1)

RECURSIVE functionCallArgs(_, _)
\* the while loop of Pratt.functionCall: the arguments, up to the `)`
functionCallArgs(args, P) ==
    LET arg == expr(0, P)
        pushed == Append(args, arg.e)
        P1 == eat(arg.P, "COMMA")
    IN  IF IsError(arg.e) THEN arg
        ELSE IF peekType(arg.P, "RIGHT_PAREN")
        THEN Parsed([k |-> "Args", items |-> pushed], arg.P)
        ELSE IF P1.error # "" THEN Failed(P1)
        ELSE functionCallArgs(pushed, P1)

functionCall(left, P) ==
    LET args == IF peekType(P, "RIGHT_PAREN")
                THEN Parsed([k |-> "Args", items |-> << >>], P)
                ELSE functionCallArgs(<< >>, P)
        P1 == eat(args.P, "RIGHT_PAREN")
    IN  IF IsError(args.e) THEN args
        ELSE IF P1.error # "" THEN Failed(P1)
        ELSE Parsed(FunctionCall(left, args.e.items), P1)

postfixExpr(left, op, P) ==
    LET P1 == next(P)
        access == objectAccess(left, op, P1)
    IN  IF P1.error # "" THEN Failed(P1)
        ELSE IF tokenIs(P1, "LEFT_BRACKET")
        THEN IF ~IsError(access.e) /\ tokenIs(access.P, "LEFT_PAREN")
             THEN functionCall(access.e, access.P)
             ELSE access
        ELSE IF tokenIs(P1, "LEFT_PAREN") THEN functionCall(left, P1)
        ELSE Parsed(left, P1)

RECURSIVE exprLoop(_, _, _)
\* the while (true) loop of Pratt.expr
exprLoop(left, ubp, P) ==
    IF peekType(P, "EOF") THEN Parsed(left, P)
    ELSE
    LET op == peekToken(P)
        infix == infixExpr(left, op, P)
        post == postfixExpr(left, op, P)
    IN  IF isInfix(op)
        THEN IF infixLeft(op) < ubp THEN Parsed(left, P)
             ELSE IF IsError(infix.e) THEN infix
             ELSE exprLoop(infix.e, ubp, infix.P)
        ELSE IF isPostfix(op)
        THEN IF postfix(op) < ubp THEN Parsed(left, P)
             ELSE IF IsError(post.e) THEN post
             ELSE exprLoop(post.e, ubp, post.P)
        ELSE Parsed(left, P)

Pratt_expr(ubp, P) ==
    LET left == primary(P) IN
    IF IsError(left.e) THEN left ELSE exprLoop(left.e, ubp, left.P)

\* the method parse of a Pratt that holds no result yet
Pratt_parse_method(P0) ==
    LET P == next(P0) IN
    IF P.error # "" THEN ParseError(P.error) ELSE expr(0, P).e

\* Pratt.parse(code): new Pratt(new AviatorLexer(code)).parse()
Pratt_parse(code) ==
    invoke([method |-> "Pratt.parse", parser |-> Pratt(AviatorLexer(code))])

(***************************************************************************)
(* Expr.toString and DefaultAviatorRuntime.run.  A text is a sequence of   *)
(* characters, as the lexer reads it.                                      *)
(***************************************************************************)
RECURSIVE Join(_)
\* the string of a sequence of characters
Join(chars) == IF chars = << >> THEN "" ELSE Head(chars) \o Join(Tail(chars))

\* the lexemes whose characters the model writes back
Words ==
    {<<c>> : c \in {"a", "b", "c", "x", "y", "z", "f"} \cup Digit}
    \cup {<<"1", "0">>, <<"t", "r", "u", "e">>, <<"f", "a", "l", "s", "e">>,
          <<"n", "i", "l">>, <<"i", "d", "e", "n", "t", "i", "t", "y">>,
          <<"1", ".", "5">>, <<"2", "N">>, <<"3", "M">>, <<"'", "x", "'">>}

\* the characters of a lexeme
Characters(lexeme) == CHOOSE chars \in Words : Join(chars) = lexeme

\* operator.lexeme, by the type the lexer gives the lexeme
OperatorLexeme ==
    [ASSIGN |-> <<"=">>, LOGIC_OR |-> <<"|", "|">>, LOGIC_AND |-> <<"&", "&">>,
     BIT_OR |-> <<"|">>, BIT_XOR |-> <<"^">>, BIT_AND |-> <<"&">>,
     LIKE |-> <<"=", "~">>, EQUAL |-> <<"=", "=">>, NOT_EQUAL |-> <<"!", "=">>,
     GREATER_THAN |-> <<">">>, GREATER_THAN_EQUAL |-> <<">", "=">>,
     LESS_THAN |-> <<"<">>, LESS_THAN_EQUAL |-> <<"<", "=">>,
     SIGNED_BIT_SHIFT_LEFT |-> <<"<", "<">>, SIGNED_BIT_SHIFT_RIGHT |-> <<">", ">">>,
     UNSIGNED_BIT_SHIFT_RIGHT |-> <<">", ">", ">">>,
     ADD |-> <<"+">>, SUBTRACT |-> <<"-">>, MOD |-> <<"%">>, MULTIPLY |-> <<"*">>,
     DIVIDE |-> <<"/">>, POW |-> <<"*", "*">>, DOT |-> <<".">>,
     LOGIC_NOT |-> <<"!">>, BIT_NOT |-> <<"~">>, CONDITIONAL |-> <<"?">>,
     LEFT_BRACKET |-> <<"[">>]

RECURSIVE toString(_)
RECURSIVE joinToString(_, _, _)
\* items.map(toString).join(separator), from the i-th item on
joinToString(items, i, separator) ==
    IF i > Len(items) THEN << >>
    ELSE (IF i > 1 THEN separator ELSE << >>) \o toString(items[i])
         \o joinToString(items, i + 1, separator)

toString(e) ==
    CASE e.k = "Leaf" -> Characters(e.lexeme)
      [] e.k = "Node" /\ Len(e.operands) = 1 ->
            <<"(">> \o OperatorLexeme[e.op] \o toString(e.operands[1]) \o <<")">>
      [] e.k = "Node" /\ Len(e.operands) = 2 /\ e.op = "DOT" ->
            toString(e.operands[1]) \o OperatorLexeme[e.op] \o toString(e.operands[2])
      [] e.k = "Node" /\ Len(e.operands) = 2 /\ e.op = "LEFT_BRACKET" ->
            toString(e.operands[1]) \o <<"[">> \o toString(e.operands[2]) \o <<"]">>
      [] e.k = "Node" /\ Len(e.operands) = 2 /\ e.op \notin {"DOT", "LEFT_BRACKET"} ->
            <<"(">> \o toString(e.operands[1]) \o <<" ">> \o OperatorLexeme[e.op]
            \o <<" ">> \o toString(e.operands[2]) \o <<")">>
      [] e.k = "Node" /\ Len(e.operands) = 3 ->
            <<"(">> \o toString(e.operands[1]) \o <<" ">> \o OperatorLexeme[e.op]
            \o <<" ">> \o toString(e.operands[2]) \o <<":">>
            \o toString(e.operands[3]) \o <<")">>
      [] e.k = "FunctionCall" ->
            toString(e.func) \o <<"(">> \o joinToString(e.args, 1, <<",", " ">>)
            \o <<")">>
      [] e.k = "LambdaFunction" ->
            <<"l", "a", "m", "b", "d", "a", " ", "(">>
            \o joinToString([i \in DOMAIN e.parameters |-> Leaf("IDENTIFIER", e.parameters[i])],
                            1, <<",", " ">>)
            \o <<")", " ", "-", ">", " ">> \o toString(e.body) \o <<" ", "e", "n", "d">>

\* DefaultAviatorRuntime.run(expression, context)
run(expression, context) ==
    LET ast == Pratt_parse(expression) IN
    IF IsError(ast) THEN Throw(ast.msg)
    ELSE evaluate(ast, Interpreter(Spread(builtinFunctions, context))).v

getBuiltinIdentifiers == DOMAIN builtinFunctions

(***************************************************************************)
(* The pending-execution engine.  A pending execution is a record of its   *)
(* kind, its children and its resultCache (Nil while null); a call of      *)
(* canExecute or execute gives its result r, a value or the error thrown,  *)
(* and the pending execution pe after the call.  A ValueExecution also     *)
(* counts its entries into runtime.run and keeps what the first returned.  *)
(***************************************************************************)
Result(r, pe) == [r |-> r, pe |-> pe]
NoRun == [t |-> "none"]

RECURSIVE dfs(_, _)
\* the names ValueExecution.dfs adds to the global scope; parameters are the
\* names of the lambdas around expr
dfs(e, parameters) ==
    CASE e.k = "Leaf" ->
            IF e.type = "IDENTIFIER" /\ e.lexeme \notin parameters
               /\ e.lexeme \notin getBuiltinIdentifiers
            THEN {e.lexeme} ELSE {}
      [] e.k = "Node" ->
            IF e.op = "DOT" /\ e.operands[1].k = "Leaf"
               /\ e.operands[1].type = "IDENTIFIER"
            THEN {e.operands[1].lexeme} \ getBuiltinIdentifiers
            ELSE UNION {dfs(e.operands[i], parameters) : i \in DOMAIN e.operands}
      [] e.k = "FunctionCall" ->
            dfs(e.func, parameters)
            \cup UNION {dfs(e.args[i], parameters) : i \in DOMAIN e.args}
      [] e.k = "LambdaFunction" ->
            dfs(e.body, parameters \cup {e.parameters[i] : i \in DOMAIN e.parameters})

extractGlobalVars(e) == dfs(e, {})

ValueExecution(node) ==
    [kind |-> "Value", node |-> node, identifiers |-> extractGlobalVars(node),
     context |-> << >>, resultCache |-> Nil, runs |-> 0, firstRun |-> NoRun]
AndExecution(left, right) ==
    [kind |-> "And", left |-> left, right |-> right, resultCache |-> Nil]
OrExecution(left, right) ==
    [kind |-> "Or", left |-> left, right |-> right, resultCache |-> Nil]
NotExecution(child) == [kind |-> "Not", child |-> child, resultCache |-> Nil]
ConditionalExecution(condition, thenExpr, elseExpr) ==
    [kind |-> "Conditional", condition |-> condition, thenExpr |-> thenExpr,
     elseExpr |-> elseExpr, resultCache |-> Nil]

RECURSIVE build(_)
\* AviatorPendingExecutionFactory.build
build(expression) ==
    IF expression.k = "Node" /\ expression.op = "LOGIC_AND"
    THEN AndExecution(build(expression.operands[1]), build(expression.operands[2]))
    ELSE IF expression.k = "Node" /\ expression.op = "LOGIC_OR"
    THEN OrExecution(build(expression.operands[1]), build(expression.operands[2]))
    ELSE IF expression.k = "Node" /\ expression.op = "LOGIC_NOT"
    THEN NotExecution(build(expression.operands[1]))
    ELSE IF expression.k = "Node" /\ expression.op = "CONDITIONAL"
    THEN ConditionalExecution(build(expression.operands[1]),
                              build(expression.operands[2]),
                              build(expression.operands[3]))
    ELSE ValueExecution(expression)

\* AviatorPendingExecutionFactory.compile
AviatorPendingExecutionFactory_compile(expression) == build(Pratt_parse(expression))

\* pe.provide(symbol, value), pe.canExecute() and pe.execute() on any kind
provide(pe, symbol, value) ==
    invoke([method |-> "PendingExecution.provide", pe |-> pe,
            symbol |-> symbol, value |-> value])
canExecute(pe) == invoke([method |-> "PendingExecution.canExecute", pe |-> pe])
executePending(pe) == invoke([method |-> "PendingExecution.execute", pe |-> pe])

\* this.<child>.canExecute() and this.<child>.execute() inside a combinator:
\* the result, and the combinator with the child after the call
childCanExecute(pe, child) ==
    LET call == canExecute(pe[child]) IN Result(call.r, [pe EXCEPT ![child] = call.pe])
childExecute(pe, child) ==
    LET call == executePending(pe[child]) IN Result(call.r, [pe EXCEPT ![child] = call.pe])

\* this.resultCache = result; return this.resultCache
cached(value, pe) == Result(value, [pe EXCEPT !.resultCache = value])

ValueExecution_provide(pe, symbol, value) ==
    IF symbol \in pe.identifiers THEN [pe EXCEPT !.context = Put(@, symbol, value)]
    ELSE pe

ValueExecution_canExecute(pe) == Result(BoolV(pe.identifiers \subseteq DOMAIN pe.context), pe)

\* a ValueExecution.execute that runs the runtime whatever the cache holds
ValueExecution_execute_noCache(pe) ==
    LET value == run(toString(pe.node), pe.context)
        ran == [pe EXCEPT !.runs = @ + 1,
                          !.firstRun = IF @ = NoRun THEN value ELSE @]
    IN  IF IsThrow(value) THEN Result(value, ran)
        ELSE IF value.t # "bool"
        THEN Result(Throw("type error: expected boolean result"), ran)
        ELSE cached(value, ran)

ValueExecution_execute(pe) ==
    IF pe.resultCache.t # "nil" THEN Result(pe.resultCache, pe)
    ELSE
    LET value == run(toString(pe.node), pe.context)
        ran == [pe EXCEPT !.runs = @ + 1,
                          !.firstRun = IF @ = NoRun THEN value ELSE @]
    IN  IF IsThrow(value) THEN Result(value, ran)
        ELSE IF value.t # "bool"
        THEN Result(Throw("type error: expected boolean result"), ran)
        ELSE cached(value, ran)

\* this.<child>.provide(symbol, value)
childProvide(pe, child, symbol, value) ==
    [pe EXCEPT ![child] = provide(@, symbol, value)]

\* this.left.canExecute() && this.right.canExecute()
bothCanExecute(pe) ==
    LET left == childCanExecute(pe, "left") IN
    IF IsThrow(left.r) \/ ~left.r.b THEN left ELSE childCanExecute(left.pe, "right")

\* this.left.execute() && this.right.execute() of an AndExecution, and
\* this.left.execute() || this.right.execute() of an OrExecution
bothExecute(pe, absorbing) ==
    LET left == childExecute(pe, "left") IN
    IF IsThrow(left.r) \/ left.r.b = absorbing THEN left
    ELSE childExecute(left.pe, "right")

Probed(done, r, pe) == [done |-> done, r |-> r, pe |-> pe]

\* a probe that takes any boolean the child executes to for a short circuit
probe_anyBoolean(pe, child, absorbing, catches) ==
    LET can == childCanExecute(pe, child) IN
    IF IsThrow(can.r) THEN Probed(TRUE, can.r, can.pe)
    ELSE IF ~can.r.b THEN Probed(FALSE, Nil, can.pe)
    ELSE LET executed == childExecute(can.pe, child) IN
         IF IsThrow(executed.r)
         THEN Probed(~catches, executed.r, executed.pe)
         ELSE Probed(TRUE, BoolV(absorbing), executed.pe)

\* if (this.<child>.canExecute()) { if (this.<child>.execute() is the
\* absorbing value) return it }, in the try block of canExecute (catches)
\* or bare as in execute: done when the method returns or throws here
probe(pe, child, absorbing, catches) ==
    LET can == childCanExecute(pe, child) IN
    IF IsThrow(can.r) THEN Probed(TRUE, can.r, can.pe)
    ELSE IF ~can.r.b THEN Probed(FALSE, Nil, can.pe)
    ELSE LET executed == childExecute(can.pe, child) IN
         IF IsThrow(executed.r)
         THEN Probed(~catches, executed.r, executed.pe)
         ELSE Probed(executed.r.b = absorbing, BoolV(absorbing), executed.pe)

\* AndExecution.provide and OrExecution.provide
Junction_provide(pe, symbol, value) ==
    childProvide(childProvide(pe, "left", symbol, value), "right", symbol, value)

\* AndExecution.canExecute (absorbing FALSE), OrExecution.canExecute (TRUE)
Junction_canExecute(pe, absorbing) ==
    LET both == bothCanExecute(pe) IN
    IF IsThrow(both.r) \/ both.r.b THEN both
    ELSE LET left == probe(both.pe, "left", absorbing, TRUE) IN
         IF left.done THEN Result(IF IsThrow(left.r) THEN left.r ELSE BoolV(TRUE), left.pe)
         ELSE LET right == probe(left.pe, "right", absorbing, TRUE) IN
              IF right.done
              THEN Result(IF IsThrow(right.r) THEN right.r ELSE BoolV(TRUE), right.pe)
              ELSE Result(BoolV(FALSE), right.pe)

\* AndExecution.execute (absorbing FALSE), OrExecution.execute (TRUE)
Junction_execute(pe, absorbing) ==
    IF pe.resultCache.t # "nil" THEN Result(pe.resultCache, pe)
    ELSE
    LET both == bothCanExecute(pe) IN
    IF IsThrow(both.r) THEN both
    ELSE IF both.r.b
    THEN LET executed == bothExecute(both.pe, absorbing) IN
         IF IsThrow(executed.r) THEN executed ELSE cached(executed.r, executed.pe)
    ELSE LET left == probe(both.pe, "left", absorbing, FALSE) IN
         IF left.done
         THEN IF IsThrow(left.r) THEN Result(left.r, left.pe) ELSE cached(left.r, left.pe)
         ELSE LET right == probe(left.pe, "right", absorbing, FALSE) IN
              IF right.done
              THEN IF IsThrow(right.r) THEN Result(right.r, right.pe)
                   ELSE cached(right.r, right.pe)
              ELSE Result(Throw("cannot execute"), right.pe)

NotExecution_provide(pe, symbol, value) == childProvide(pe, "child", symbol, value)
NotExecution_canExecute(pe) == childCanExecute(pe, "child")
NotExecution_execute(pe) ==
    IF pe.resultCache.t # "nil" THEN Result(pe.resultCache, pe)
    ELSE LET executed == childExecute(pe, "child") IN
         IF IsThrow(executed.r) THEN executed
         ELSE cached(BoolV(~executed.r.b), executed.pe)

ConditionalExecution_provide(pe, symbol, value) ==
    childProvide(childProvide(childProvide(pe, "condition", symbol, value),
                              "thenExpr", symbol, value),
                 "elseExpr", symbol, value)

\* a canExecute that does not ask the chosen branch
ConditionalExecution_canExecute_conditionOnly(pe) ==
    childCanExecute(pe, "condition")

ConditionalExecution_canExecute(pe) ==
    LET can == childCanExecute(pe, "condition") IN
    IF IsThrow(can.r) \/ ~can.r.b THEN can
    ELSE LET condition == childExecute(can.pe, "condition") IN
         IF IsThrow(condition.r) THEN condition
         ELSE childCanExecute(condition.pe,
                              IF condition.r.b THEN "thenExpr" ELSE "elseExpr")

ConditionalExecution_execute(pe) ==
    IF pe.resultCache.t # "nil" THEN Result(pe.resultCache, pe)
    ELSE LET condition == childExecute(pe, "condition") IN
         IF IsThrow(condition.r) THEN condition
         ELSE LET executed == childExecute(condition.pe,
                                  IF condition.r.b THEN "thenExpr" ELSE "elseExpr") IN
              IF IsThrow(executed.r) THEN executed
              ELSE cached(executed.r, executed.pe)

AndExecution_provide(pe, symbol, value) == Junction_provide(pe, symbol, value)
AndExecution_canExecute(pe) == Junction_canExecute(pe, FALSE)
AndExecution_execute(pe) == Junction_execute(pe, FALSE)

OrExecution_provide(pe, symbol, value) == Junction_provide(pe, symbol, value)
OrExecution_canExecute(pe) == Junction_canExecute(pe, TRUE)
OrExecution_execute(pe) == Junction_execute(pe, TRUE)

PendingExecution_provide(pe, symbol, value) ==
    CASE pe.kind = "Value" -> ValueExecution_provide(pe, symbol, value)
      [] pe.kind = "And" -> AndExecution_provide(pe, symbol, value)
      [] pe.kind = "Or" -> OrExecution_provide(pe, symbol, value)
      [] pe.kind = "Not" -> NotExecution_provide(pe, symbol, value)
      [] pe.kind = "Conditional" -> ConditionalExecution_provide(pe, symbol, value)

PendingExecution_canExecute(pe) ==
    CASE pe.kind = "Value" -> ValueExecution_canExecute(pe)
      [] pe.kind = "And" -> AndExecution_canExecute(pe)
      [] pe.kind = "Or" -> OrExecution_canExecute(pe)
      [] pe.kind = "Not" -> NotExecution_canExecute(pe)
      [] pe.kind = "Conditional" -> ConditionalExecution_canExecute(pe)

PendingExecution_execute(pe) ==
    CASE pe.kind = "Value" -> ValueExecution_execute(pe)
      [] pe.kind = "And" -> AndExecution_execute(pe)
      [] pe.kind = "Or" -> OrExecution_execute(pe)
      [] pe.kind = "Not" -> NotExecution_execute(pe)
      [] pe.kind = "Conditional" -> ConditionalExecution_execute(pe)

(***************************************************************************)
(* The bodies of the methods called through invoke.                        *)
(***************************************************************************)
invoke(call) ==
    CASE call.method = "evaluate" -> Interpreter_evaluate(call.expr, call.I)
      [] call.method = "execute" -> Stmt_execute(call.stmt, call.I)
      [] call.method = "executeStatements" ->
            Interpreter_executeStatements(call.statements, call.I)
      [] call.method = "executeBlock" ->
            Interpreter_executeBlock(call.statements, call.I)
      [] call.method = "apply" -> Function_apply(call.func, call.args, call.I)
      [] call.method = "AviatorLexer.next" -> AviatorLexer_next(call.lexer)
      [] call.method = "Pratt.parse" -> Pratt_parse_method(call.parser)
      [] call.method = "Pratt.expr" -> Pratt_expr(call.ubp, call.parser)
      [] call.method = "PendingExecution.provide" ->
            PendingExecution_provide(call.pe, call.symbol, call.value)
      [] call.method = "PendingExecution.canExecute" ->
            PendingExecution_canExecute(call.pe)
      [] call.method = "PendingExecution.execute" ->
            PendingExecution_execute(call.pe)

(***************************************************************************)
(* ScriptParser over tokens.  The parser is the record of its lexer, its   *)
(* token, its lookahead and the error thrown so far; once an error is      *)
(* thrown every method leaves the parser as it is and what it returns is   *)
(* never looked at: the error is what ScriptParser.parse throws.  A leaf   *)
(* and a node keep the line of their token.  A message is written without  *)
(* the rendering of the token that follows `Got:`.                         *)
(***************************************************************************)
RECURSIVE dispatch(_)
\* the methods of the script parser and of the analyzer call one another
\* through dispatch, which is defined after them

NoError == [name |-> "none"]

\* new ParseError(message, token)
ParseErrorAt(message, tok) == [name |-> "ParseError", message |-> message, token |-> tok]

\* new Error(`... at ${this.line}:${this.column}`) of the lexer
ErrorAt(message, line) == [name |-> "Error", message |-> message, at |-> line]

Ok(S) == S.error = NoError
throw(S, error) == IF Ok(S) THEN [S EXCEPT !.error = error] ELSE S

\* new Leaf(token) and new Node(operator, ...operands)
LeafAt(tok) == [k |-> "Leaf", type |-> tok.type, lexeme |-> tok.lexeme, line |-> tok.line]
NodeAt(op, operands) == [k |-> "Node", op |-> op.type, line |-> op.line, operands |-> operands]

NoExpr == [k |-> "none"]
Got(e, S) == [e |-> e, S |-> S]

ScriptParser_advance(S) ==
    IF ~Ok(S) THEN S
    ELSE LET L == dispatch([method |-> "AviatorLexer.next", lexer |-> S.lexer]) IN
         IF L.lastToken.type = "Error"
         THEN [S EXCEPT !.lexer = L,
                        !.error = ErrorAt(L.lastToken.lexeme, L.lastToken.line)]
         ELSE [S EXCEPT !.lexer = L, !.token = S.lookahead, !.lookahead = L.lastToken]

\* new ScriptParser(code)
ScriptParser(code) ==
    ScriptParser_advance([lexer |-> AviatorLexer(code), token |-> NoToken,
                          lookahead |-> NoToken, error |-> NoError])

ScriptParser_peekType(S, type) == S.lookahead.type = type
ScriptParser_currentIs(S, type) == S.token.type = type
isAtEnd(S) == S.lookahead.type = "EOF"
checkToken(S, type) == ~isAtEnd(S) /\ S.lookahead.type = type

\* matchToken(type): the parser after it; it returned checkToken(S, type)
matchToken(S, type) ==
    IF Ok(S) /\ checkToken(S, type) THEN ScriptParser_advance(S) ELSE S

eatToken(S, type) ==
    LET S1 == ScriptParser_advance(S) IN
    IF Ok(S1) /\ ~ScriptParser_currentIs(S1, type)
    THEN throw(S1, ParseErrorAt("Expect " \o type \o " but got", S1.token))
    ELSE S1

\* consumeToken(type, message): the parser after it; it returned its token
consumeToken(S, type, message) ==
    IF ~Ok(S) THEN S
    ELSE IF checkToken(S, type) THEN ScriptParser_advance(S)
    ELSE throw(S, ParseErrorAt(message, S.lookahead))

consumeSemicolon(S) == matchToken(S, "SEMICOLON")

ScriptParser_peekUnary(S) == S.lookahead.type \in {"SUBTRACT", "LOGIC_NOT", "BIT_NOT"}
ScriptParser_peekLeaf(S) ==
    S.lookahead.type \in {"NUMBER", "IDENTIFIER", "STRING", "TRUE", "FALSE", "NIL", "REGEX"}

\* this.expr(ubp)
ScriptParser_exprOf(ubp, S) ==
    dispatch([method |-> "ScriptParser.expr", ubp |-> ubp, parser |-> S])

expression(S) == ScriptParser_exprOf(0, S)

ScriptParser_subExpr(S) ==
    LET e == ScriptParser_exprOf(0, eatToken(S, "LEFT_PAREN")) IN
    Got(e.e, eatToken(e.S, "RIGHT_PAREN"))

ScriptParser_leaf(S) ==
    LET S1 == ScriptParser_advance(S) IN Got(LeafAt(S1.token), S1)

RECURSIVE ScriptParser_lambdaParameters(_, _)
\* the while (true) loop of ScriptParser.lambda
ScriptParser_lambdaParameters(S, parameters) ==
    LET S1 == ScriptParser_advance(S)
        pushed == Append(parameters, S1.token.lexeme)
    IN  IF ~Ok(S1) \/ ScriptParser_peekType(S1, "RIGHT_PAREN")
        THEN [S |-> S1, parameters |-> pushed]
        ELSE ScriptParser_lambdaParameters(eatToken(S1, "COMMA"), pushed)

ScriptParser_lambda(S) ==
    LET S1 == eatToken(eatToken(S, "LAMBDA"), "LEFT_PAREN")
        ps == IF ~Ok(S1) \/ ScriptParser_peekType(S1, "RIGHT_PAREN")
              THEN [S |-> S1, parameters |-> << >>]
              ELSE ScriptParser_lambdaParameters(S1, << >>)
        body == ScriptParser_exprOf(0, eatToken(eatToken(ps.S, "RIGHT_PAREN"), "ARROW"))
    IN  Got(LambdaFunction(ps.parameters, body.e), eatToken(body.S, "END"))

ScriptParser_prefixExpr(S) ==
    LET S1 == ScriptParser_advance(S)
        op == S1.token
        right == ScriptParser_exprOf(prefix(op), S1)
    IN  IF ~Ok(S1) THEN Got(NoExpr, S1)
        ELSE Got(NodeAt(op, <<right.e>>), right.S)

ScriptParser_primary(S) ==
    IF ~Ok(S) THEN Got(NoExpr, S)
    ELSE IF ScriptParser_peekType(S, "LEFT_PAREN") THEN ScriptParser_subExpr(S)
    ELSE IF ScriptParser_peekLeaf(S) THEN ScriptParser_leaf(S)
    ELSE IF ScriptParser_peekUnary(S) THEN ScriptParser_prefixExpr(S)
    ELSE IF ScriptParser_peekType(S, "LAMBDA") THEN ScriptParser_lambda(S)
    ELSE Got(NoExpr, throw(S, ParseErrorAt("Unexpected primary token", S.lookahead)))

ScriptParser_conditional(left, op, S) ==
    LET thenExpr == ScriptParser_exprOf(0, S)
        elseExpr == ScriptParser_exprOf(infixRight(op), eatToken(thenExpr.S, "COLON"))
    IN  Got(NodeAt(op, <<left, thenExpr.e, elseExpr.e>>), elseExpr.S)

ScriptParser_infixExpr(left, op, S) ==
    LET S1 == ScriptParser_advance(S)
        right == ScriptParser_exprOf(infixRight(op), S1)
    IN  IF ~Ok(S1) THEN Got(NoExpr, S1)
        ELSE IF ScriptParser_currentIs(S1, "CONDITIONAL")
        THEN ScriptParser_conditional(left, op, S1)
        ELSE Got(NodeAt(op, <<left, right.e>>), right.S)

ScriptParser_objectAccess(left, op, S) ==
    LET subexpr == ScriptParser_exprOf(0, S) IN
    Got(NodeAt(op, <<left, subexpr.e>>), eatToken(subexpr.S, "RIGHT_BRACKET"))

RECURSIVE ScriptParser_functionCallArgs(_, _)
\* the while (true) loop of ScriptParser.functionCall
ScriptParser_functionCallArgs(args, S) ==
    LET arg == ScriptParser_exprOf(0, S)
        pushed == Append(args, arg.e)
    IN  IF ~Ok(arg.S) \/ ScriptParser_peekType(arg.S, "RIGHT_PAREN")
        THEN [S |-> arg.S, args |-> pushed]
        ELSE ScriptParser_functionCallArgs(pushed, eatToken(arg.S, "COMMA"))

ScriptParser_functionCall(left, S) ==
    LET args == IF ScriptParser_peekType(S, "RIGHT_PAREN")
                THEN [S |-> S, args |-> << >>]
                ELSE ScriptParser_functionCallArgs(<< >>, S)
    IN  Got(FunctionCall(left, args.args), eatToken(args.S, "RIGHT_PAREN"))

ScriptParser_postfixExpr(left, op, S) ==
    LET S1 == ScriptParser_advance(S)
        access == IF ScriptParser_currentIs(S1, "LEFT_BRACKET")
                  THEN ScriptParser_objectAccess(left, op, S1)
                  ELSE Got(left, S1)
    IN  IF ~Ok(S1) THEN Got(NoExpr, S1)
        ELSE IF Ok(access.S) /\ ScriptParser_currentIs(access.S, "LEFT_PAREN")
        THEN ScriptParser_functionCall(access.e, access.S)
        ELSE access

RECURSIVE ScriptParser_exprLoop(_, _, _)
\* the while (true) loop of ScriptParser.expr
ScriptParser_exprLoop(left, ubp, S) ==
    IF ~Ok(S) \/ S.lookahead.type \in {"EOF", "SEMICOLON", "RIGHT_BRACE"} THEN Got(left, S)
    ELSE
    LET op == S.lookahead
        infix == ScriptParser_infixExpr(left, op, S)
        post == ScriptParser_postfixExpr(left, op, S)
    IN  IF isInfix(op)
        THEN IF infixLeft(op) < ubp THEN Got(left, S)
             ELSE ScriptParser_exprLoop(infix.e, ubp, infix.S)
        ELSE IF isPostfix(op)
        THEN IF postfix(op) < ubp THEN Got(left, S)
             ELSE ScriptParser_exprLoop(post.e, ubp, post.S)
        ELSE Got(left, S)

ScriptParser_expr(ubp, S) ==
    LET left == ScriptParser_primary(S) IN ScriptParser_exprLoop(left.e, ubp, left.S)

\* this.statement() and this.block()
ScriptParser_statementOf(S) == dispatch([method |-> "ScriptParser.statement", parser |-> S])
ScriptParser_blockOf(S) == dispatch([method |-> "ScriptParser.block", parser |-> S])

NoStmt == [k |-> "none"]
GotStmt(s, S) == [s |-> s, S |-> S]
GotBlock(statements, S) == [statements |-> statements, S |-> S]

\* new TryStmt(tryBlock, catchVar, catchBlock, finallyBlock), new ThrowStmt(value)
TryStmt(tryBlock, catchVar, catchBlock, finallyBlock) ==
    [k |-> "TryStmt", tryBlock |-> tryBlock, catchVar |-> catchVar,
     catchBlock |-> catchBlock, finallyBlock |-> finallyBlock]
ThrowStmt(value) == [k |-> "ThrowStmt", value |-> value]

\* a block that is null
NoBlock == [k |-> "null"]

letStatement(S) ==
    LET S1 == consumeToken(S, "IDENTIFIER", "Expect variable name after 'let'")
        S2 == consumeToken(S1, "ASSIGN", "Expect '=' after variable name")
        initializer == expression(S2)
    IN  GotStmt(LetStmt(S1.token.lexeme, initializer.e), consumeSemicolon(initializer.S))

\* ( condition ) with both parentheses optional, and the block after it
conditionAndBlock(S) ==
    LET condition == expression(matchToken(S, "LEFT_PAREN"))
        body == ScriptParser_blockOf(matchToken(condition.S, "RIGHT_PAREN"))
    IN  [condition |-> condition.e, body |-> body.statements, S |-> body.S]

RECURSIVE elsifBranchesFrom(_, _)
\* the while (this.matchToken(TokenType.ELSE_IF)) loop of ifStatement
elsifBranchesFrom(S, branches) ==
    IF Ok(S) /\ checkToken(S, "ELSE_IF")
    THEN LET branch == conditionAndBlock(matchToken(S, "ELSE_IF")) IN
         elsifBranchesFrom(branch.S,
             Append(branches, [condition |-> branch.condition, body |-> branch.body]))
    ELSE [branches |-> branches, S |-> S]

ifStatement(S) ==
    LET then == conditionAndBlock(ScriptParser_advance(S))
        elsifs == elsifBranchesFrom(then.S, << >>)
        hasElse == Ok(elsifs.S) /\ checkToken(elsifs.S, "ELSE")
        elseBranch == IF hasElse THEN ScriptParser_blockOf(matchToken(elsifs.S, "ELSE"))
                      ELSE GotBlock(<< >>, elsifs.S)
    IN  GotStmt(IfStmt(then.condition, then.body, elsifs.branches, hasElse,
                       elseBranch.statements), elseBranch.S)

whileStatement(S) ==
    LET loop == conditionAndBlock(ScriptParser_advance(S)) IN
    GotStmt(WhileStmt(loop.condition, loop.body), loop.S)

forStatement(S) ==
    LET S1 == consumeToken(ScriptParser_advance(S), "IDENTIFIER",
                           "Expect variable name in for loop")
        first == S1.token
        two == Ok(S1) /\ checkToken(S1, "COMMA")
        S2 == IF two THEN consumeToken(matchToken(S1, "COMMA"), "IDENTIFIER",
                                       "Expect item variable after comma")
              ELSE S1
        iterable == expression(consumeToken(S2, "IN", "Expect 'in' in for loop"))
        body == ScriptParser_blockOf(iterable.S)
    IN  GotStmt(ForStmt(IF two THEN first.lexeme ELSE NoIndex,
                        IF two THEN S2.token.lexeme ELSE first.lexeme,
                        iterable.e, body.statements), body.S)

RECURSIVE fnParams(_, _)
\* the do ... while (this.matchToken(TokenType.COMMA)) loop of fnStatement
fnParams(S, params) ==
    LET S1 == consumeToken(S, "IDENTIFIER", "Expect parameter name")
        pushed == Append(params, S1.token.lexeme)
    IN  IF Ok(S1) /\ checkToken(S1, "COMMA") THEN fnParams(matchToken(S1, "COMMA"), pushed)
        ELSE [params |-> pushed, S |-> S1]

fnStatement(S) ==
    LET S1 == consumeToken(ScriptParser_advance(S), "IDENTIFIER", "Expect function name")
        S2 == consumeToken(S1, "LEFT_PAREN", "Expect '(' after function name")
        ps == IF Ok(S2) /\ ~checkToken(S2, "RIGHT_PAREN") THEN fnParams(S2, << >>)
              ELSE [params |-> << >>, S |-> S2]
        body == ScriptParser_blockOf(
                    consumeToken(ps.S, "RIGHT_PAREN", "Expect ')' after parameters"))
    IN  GotStmt(FnStmt(S1.token.lexeme, ps.params, body.statements), body.S)

tryStatement(S) ==
    LET tryBlock == ScriptParser_blockOf(ScriptParser_advance(S))
        hasCatch == Ok(tryBlock.S) /\ checkToken(tryBlock.S, "CATCH")
        C1 == consumeToken(matchToken(tryBlock.S, "CATCH"), "LEFT_PAREN",
                           "Expect '(' after catch")
        C2 == consumeToken(C1, "IDENTIFIER", "Expect catch variable name")
        C3 == consumeToken(C2, "RIGHT_PAREN", "Expect ')' after catch variable")
        catchBlock == IF hasCatch THEN ScriptParser_blockOf(C3) ELSE GotBlock(NoBlock, tryBlock.S)
        hasFinally == Ok(catchBlock.S) /\ checkToken(catchBlock.S, "FINALLY")
        finallyBlock == IF hasFinally
                        THEN ScriptParser_blockOf(matchToken(catchBlock.S, "FINALLY"))
                        ELSE GotBlock(NoBlock, catchBlock.S)
    IN  GotStmt(TryStmt(tryBlock.statements, IF hasCatch THEN C2.token.lexeme ELSE "",
                        catchBlock.statements, finallyBlock.statements), finallyBlock.S)

returnStatement(S) ==
    LET hasValue == ~checkToken(S, "SEMICOLON") /\ ~checkToken(S, "RIGHT_BRACE") /\ ~isAtEnd(S)
        value == IF hasValue THEN expression(S) ELSE Got(NoExpr, S)
    IN  GotStmt(ReturnStmt(hasValue, value.e), consumeSemicolon(value.S))

throwStatement(S) ==
    LET value == expression(S) IN GotStmt(ThrowStmt(value.e), consumeSemicolon(value.S))

\* new ExprStmt(expr, hasSemi): the analyzer reads the expression alone
ScriptParser_expressionStatement(S) ==
    LET e == expression(S) IN GotStmt(ExprStmt(e.e), consumeSemicolon(e.S))

ScriptParser_statement(S) ==
    IF ~Ok(S) THEN GotStmt(NoStmt, S)
    ELSE IF checkToken(S, "LET") THEN letStatement(matchToken(S, "LET"))
    ELSE IF checkToken(S, "IF") THEN ifStatement(S)
    ELSE IF checkToken(S, "WHILE") THEN whileStatement(S)
    ELSE IF checkToken(S, "FOR") THEN forStatement(S)
    ELSE IF checkToken(S, "FN") THEN fnStatement(S)
    ELSE IF checkToken(S, "TRY") THEN tryStatement(S)
    ELSE IF checkToken(S, "THROW") THEN throwStatement(matchToken(S, "THROW"))
    ELSE IF checkToken(S, "RETURN") THEN returnStatement(matchToken(S, "RETURN"))
    ELSE IF checkToken(S, "BREAK")
    THEN GotStmt(BreakStmt, consumeSemicolon(matchToken(S, "BREAK")))
    ELSE IF checkToken(S, "CONTINUE")
    THEN GotStmt(ContinueStmt, consumeSemicolon(matchToken(S, "CONTINUE")))
    ELSE IF checkToken(S, "LEFT_BRACE")
    THEN LET body == ScriptParser_blockOf(S) IN GotStmt(BlockStmt(body.statements), body.S)
    ELSE ScriptParser_expressionStatement(S)

RECURSIVE skipSemicolons(_)
\* while (this.matchToken(TokenType.SEMICOLON)) { }
skipSemicolons(S) ==
    IF Ok(S) /\ checkToken(S, "SEMICOLON") THEN skipSemicolons(matchToken(S, "SEMICOLON"))
    ELSE S

RECURSIVE blockStatements(_, _)
\* the while loop of ScriptParser.block
blockStatements(S, statements) ==
    IF ~Ok(S) \/ checkToken(S, "RIGHT_BRACE") \/ isAtEnd(S) THEN GotBlock(statements, S)
    ELSE LET S1 == skipSemicolons(S)
             stmt == ScriptParser_statementOf(S1)
         IN  IF ~Ok(S1) \/ checkToken(S1, "RIGHT_BRACE") THEN GotBlock(statements, S1)
             ELSE blockStatements(stmt.S, Append(statements, stmt.s))

ScriptParser_block(S) ==
    LET body == blockStatements(consumeToken(S, "LEFT_BRACE", "Expect '{'"), << >>) IN
    GotBlock(body.statements, consumeToken(body.S, "RIGHT_BRACE", "Expect '}'"))

RECURSIVE parseStatements(_, _)
\* the while (!this.isAtEnd()) loop of ScriptParser.parse
parseStatements(S, statements) ==
    IF ~Ok(S) \/ isAtEnd(S) THEN GotBlock(statements, S)
    ELSE LET S1 == skipSemicolons(S)
             stmt == ScriptParser_statementOf(S1)
         IN  IF ~Ok(S1) \/ isAtEnd(S1) THEN GotBlock(statements, S1)
             ELSE parseStatements(stmt.S, Append(statements, stmt.s))

\* ScriptParser.parse(code): the statements, or the error thrown
ScriptParser_parse(code) == dispatch([method |-> "ScriptParser.parse", code |-> code])
ScriptParser_parse_static(code) == parseStatements(ScriptParser(code), << >>)

(***************************************************************************)
(* StaticAnalyzer.  The analyzer is the record of its symbol tables and    *)
(* its diagnostics; a symbol table is an index into scopes, table 1 is the *)
(* global scope and parent 0 is null.  A type is the string of its         *)
(* AviatorType, and "" is the null that resolve returns.                   *)
(***************************************************************************)
\* the names registerBuiltins defines in the global scope, each as any
BuiltinSymbols ==
    {"println", "print", "p", "sysdate", "now", "rand", "cmp", "long",
     "double", "boolean", "str", "identity", "type", "is_def", "range",
     "tuple", "max", "min", "count", "is_empty", "map", "filter", "reduce",
     "include", "sort", "reverse", "seq.list", "seq.set", "seq.map",
     "seq.add", "seq.get", "seq.contains_key", "seq.remove",
     "string.contains", "string.length", "string.startsWith",
     "string.endsWith", "string.substring", "string.indexOf",
     "string.split", "string.join", "string.replace_first",
     "string.replace_all", "math.abs", "math.round", "math.floor",
     "math.ceil", "math.sqrt", "math.pow", "math.log", "math.log10",
     "math.sin", "math.cos", "math.tan", "math.atan", "math.acos",
     "math.asin", "Math_max", "Math_min", "seq.eq", "seq.neq", "seq.gt",
     "seq.ge", "seq.lt", "seq.le", "seq.nil", "seq.exists"}

\* this.builtinsReturnType
builtinsReturnType ==
    [name \in {"long", "double", "boolean", "str", "identity", "type",
                "is_def", "range", "tuple", "max", "min", "count",
                "is_empty", "map", "filter", "reduce", "include", "sort",
                "reverse", "seq.list", "seq.set", "seq.map", "seq.add",
                "seq.get", "seq.contains_key", "seq.remove",
                "string.contains", "string.length", "string.startsWith",
                "string.endsWith", "string.substring", "string.indexOf",
                "string.split", "string.join", "string.replace_first",
                "string.replace_all", "math.abs", "math.round",
                "math.floor", "math.ceil", "math.sqrt", "math.pow",
                "math.log", "math.log10", "math.sin", "math.cos",
                "math.tan", "math.atan", "math.acos", "math.asin",
                "Math_max", "Math_min", "seq.eq", "seq.neq", "seq.gt",
                "seq.ge", "seq.lt", "seq.le", "seq.nil", "seq.exists"} |->
        CASE name \in {"long", "count", "string.length", "string.indexOf",
                         "math.round"} -> "long"
          [] name \in {"double", "math.abs", "math.floor", "math.ceil",
                         "math.sqrt", "math.pow", "math.log", "math.log10",
                         "math.sin", "math.cos", "math.tan", "math.atan",
                         "math.acos", "math.asin", "Math_max", "Math_min"} -> "double"
          [] name \in {"boolean", "is_def", "is_empty", "include",
                         "seq.contains_key", "string.contains",
                         "string.startsWith", "string.endsWith"} -> "boolean"
          [] name \in {"str", "type", "string.substring", "string.join",
                         "string.replace_first", "string.replace_all"} -> "string"
          [] name \in {"range", "tuple", "map", "filter", "sort",
                         "reverse", "seq.list", "string.split"} -> "list"
          [] name \in {"seq.set"} -> "set"
          [] name \in {"seq.map"} -> "map"
          [] OTHER -> "any"]

\* new SymbolTable(parent)
SymbolTable(parent) == [parent |-> parent, symbols |-> << >>]

SymbolTable_define(A, scope, name, type) ==
    [A EXCEPT !.scopes[scope].symbols = Put(@, name, type)]

RECURSIVE SymbolTable_resolve(_, _, _)
SymbolTable_resolve(A, scope, name) ==
    IF scope = 0 THEN ""
    ELSE IF name \in DOMAIN A.scopes[scope].symbols THEN A.scopes[scope].symbols[name]
    ELSE SymbolTable_resolve(A, A.scopes[scope].parent, name)

\* scope.createChild(): the analyzer with the child, which is its last table
createChild(A, scope) == [A EXCEPT !.scopes = Append(@, SymbolTable(scope))]
Child(A) == Len(A.scopes)

RECURSIVE defineAll(_, _, _, _)
\* for (const name of names) scope.define(name, type)
defineAll(A, scope, names, type) ==
    IF names = << >> THEN A
    ELSE defineAll(SymbolTable_define(A, scope, Head(names), type), scope, Tail(names), type)

\* this.registerBuiltins()
registerBuiltins(A) ==
    [A EXCEPT !.scopes[1].symbols =
        [name \in (DOMAIN @) \cup BuiltinSymbols |->
            IF name \in BuiltinSymbols THEN "any" ELSE @[name]]]

\* new StaticAnalyzer(env)
StaticAnalyzer(env) ==
    registerBuiltins([scopes |-> <<[parent |-> 0, symbols |-> env]>>,
                      diagnostics |-> << >>])

Error == 1
Warning == 2

addError(A, message, line) ==
    [A EXCEPT !.diagnostics =
        Append(@, [message |-> message, line |-> line, severity |-> Error])]

addWarn(A, message, line) ==
    [A EXCEPT !.diagnostics =
        Append(@, [message |-> message, line |-> line, severity |-> Warning])]

getLine(e) == IF e.k \in {"Leaf", "Node"} THEN e.line ELSE 0

RECURSIVE buildFullNameIfLeaf(_)
\* "" is the null of the source
buildFullNameIfLeaf(node) ==
    IF node.k = "Leaf" THEN node.lexeme
    ELSE IF node.k = "Node" /\ node.op = "DOT"
    THEN LET left == buildFullNameIfLeaf(node.operands[1])
             right == buildFullNameIfLeaf(node.operands[2])
         IN  IF left # "" /\ right # "" THEN left \o "." \o right ELSE ""
    ELSE ""

isBooleanCompatible(type) == type \in {"boolean", "any"}

Typed(type, A) == [type |-> type, A |-> A]

\* this.analyzeExpr(expr, scope) and this.analyzeBlock(statements, scope)
analyzeExpr(e, scope, A) ==
    dispatch([method |-> "StaticAnalyzer.analyzeExpr", expr |-> e, scope |-> scope, A |-> A])
analyzeBlock(statements, scope, A) ==
    dispatch([method |-> "StaticAnalyzer.analyzeBlock", statements |-> statements,
            scope |-> scope, A |-> A])

\* the type of a number literal, by the characters of its lexeme
numberType(lexeme) ==
    LET chars == Characters(lexeme)
        has(cs) == \E i \in DOMAIN chars : chars[i] \in cs
    IN  IF chars[Len(chars)] = "N" THEN "bigint"
        ELSE IF chars[Len(chars)] = "M" THEN "decimal"
        ELSE IF has({".", "e", "E"}) THEN "double"
        ELSE "long"

analyzeLeaf(lf, scope, A) ==
    CASE lf.type = "NUMBER" -> Typed(numberType(lf.lexeme), A)
      [] lf.type = "STRING" -> Typed("string", A)
      [] lf.type \in {"TRUE", "FALSE"} -> Typed("boolean", A)
      [] lf.type = "NIL" -> Typed("nil", A)
      [] lf.type = "REGEX" -> Typed("pattern", A)
      [] lf.type = "IDENTIFIER" ->
            LET type == SymbolTable_resolve(A, scope, lf.lexeme) IN
            IF type = ""
            THEN Typed("any", addError(A, "Undefined variable '" \o lf.lexeme \o "'",
                                       lf.line))
            ELSE Typed(type, A)
      [] OTHER -> Typed("any", A)

\* the unary case of analyzeNode
analyzeUnary(node, scope, A) ==
    LET right == analyzeExpr(node.operands[1], scope, A) IN
    IF node.op = "LOGIC_NOT" THEN Typed("boolean", right.A) ELSE right

\* the case of the operator `.` of analyzeNode
analyzeDot(node, scope, A) ==
    LET fullIdentifier == buildFullNameIfLeaf(node)
        type == IF fullIdentifier # "" THEN SymbolTable_resolve(A, scope, fullIdentifier)
                ELSE ""
        left == analyzeExpr(node.operands[1], scope, A)
        right == analyzeExpr(node.operands[2], scope, left.A)
    IN  IF type # "" THEN Typed(type, A) ELSE Typed("any", right.A)

\* the case of the operator `=` of analyzeNode
analyzeAssign(node, scope, A) ==
    LET leftNode == node.operands[1]
        right == analyzeExpr(node.operands[2], scope, A)
        rightType == right.type
        existing == SymbolTable_resolve(right.A, scope, leftNode.lexeme)
    IN  IF leftNode.k = "Leaf" /\ leftNode.type = "IDENTIFIER"
        THEN IF \/ existing # "" /\ existing # "any" /\ rightType # "any"
                    /\ existing # rightType
                \/ existing = ""
             THEN Typed(rightType, SymbolTable_define(right.A, scope, leftNode.lexeme,
                                                      rightType))
             ELSE right
        ELSE Typed(rightType, analyzeExpr(leftNode, scope, right.A).A)

\* the logic case of analyzeNode: the operands are left and right
analyzeLogic(node, left, right) ==
    LET A1 == IF isBooleanCompatible(left.type) THEN right.A
              ELSE addError(right.A,
                            "Left operand of '" \o Join(OperatorLexeme[node.op])
                                \o "' must be boolean, got " \o left.type,
                            getLine(node.operands[1]))
        A2 == IF isBooleanCompatible(right.type) THEN A1
              ELSE addError(A1,
                            "Right operand of '" \o Join(OperatorLexeme[node.op])
                                \o "' must be boolean, got " \o right.type,
                            getLine(node.operands[2]))
    IN  Typed("boolean", A2)

\* the binary cases of analyzeNode but `.` and `=`
analyzeBinary(node, scope, A) ==
    LET left == analyzeExpr(node.operands[1], scope, A)
        right == analyzeExpr(node.operands[2], scope, left.A)
        either(type) == left.type = type \/ right.type = type
    IN  IF node.op \in {"LOGIC_AND", "LOGIC_OR"} THEN analyzeLogic(node, left, right)
        ELSE IF node.op \in {"EQUAL", "NOT_EQUAL", "GREATER_THAN", "LESS_THAN",
                             "GREATER_THAN_EQUAL", "LESS_THAN_EQUAL"}
        THEN Typed("boolean", right.A)
        ELSE IF node.op \in {"ADD", "SUBTRACT", "MULTIPLY", "DIVIDE", "MOD"}
        THEN Typed(IF node.op = "ADD" /\ either("string") THEN "string"
                   ELSE IF either("decimal") THEN "decimal"
                   ELSE IF either("double") THEN "double"
                   ELSE IF either("bigint") THEN "bigint"
                   ELSE "long", right.A)
        ELSE IF node.op = "LIKE"
        THEN Typed("boolean",
                   IF left.type \notin {"string", "any"}
                   THEN addWarn(right.A,
                                "Left operand of '=~' should be string, got " \o left.type,
                                getLine(node.operands[1]))
                   ELSE right.A)
        ELSE Typed("any", right.A)

\* the ternary case of analyzeNode
analyzeTernary(node, scope, A) ==
    LET cond == analyzeExpr(node.operands[1], scope, A)
        A1 == IF isBooleanCompatible(cond.type) THEN cond.A
              ELSE addError(cond.A, "Ternary condition must be boolean, got " \o cond.type,
                            getLine(node.operands[1]))
        trueType == analyzeExpr(node.operands[2], scope, A1)
        falseType == analyzeExpr(node.operands[3], scope, trueType.A)
    IN  Typed(IF trueType.type = falseType.type THEN trueType.type ELSE "any", falseType.A)

analyzeNode(node, scope, A) ==
    IF Len(node.operands) = 1 THEN analyzeUnary(node, scope, A)
    ELSE IF Len(node.operands) = 2
    THEN IF node.op = "DOT" THEN analyzeDot(node, scope, A)
         ELSE IF node.op = "ASSIGN" THEN analyzeAssign(node, scope, A)
         ELSE analyzeBinary(node, scope, A)
    ELSE IF Len(node.operands) = 3 /\ node.op = "CONDITIONAL"
    THEN analyzeTernary(node, scope, A)
    ELSE Typed("any", A)

RECURSIVE analyzeArgs(_, _, _)
\* for (const arg of expr.args) this.analyzeExpr(arg, scope)
analyzeArgs(args, scope, A) ==
    IF args = << >> THEN A
    ELSE analyzeArgs(Tail(args), scope, analyzeExpr(Head(args), scope, A).A)

\* the FunctionCall case of analyzeExpr
analyzeFunctionCall(e, scope, A) ==
    LET A1 == analyzeArgs(e.args, scope, analyzeExpr(e.func, scope, A).A)
        funcName == buildFullNameIfLeaf(e.func)
        funcType == SymbolTable_resolve(A1, scope, funcName)
    IN  IF funcName = "" THEN Typed("any", A1)
        ELSE IF funcType = ""
        THEN Typed("any", addError(A1, "Undefined function '" \o funcName \o "'", getLine(e)))
        ELSE IF funcName \in DOMAIN builtinsReturnType
        THEN Typed(builtinsReturnType[funcName], A1)
        ELSE Typed("any", A1)

\* the LambdaFunction case of analyzeExpr
analyzeLambda(e, scope, A) ==
    LET A1 == createChild(A, scope)
        lambdaScope == Child(A1)
    IN  Typed("any", analyzeExpr(e.body, lambdaScope,
                                 defineAll(A1, lambdaScope, e.parameters, "any")).A)

StaticAnalyzer_analyzeExpr(e, scope, A) ==
    CASE e.k = "none" -> Typed("void", A)
      [] e.k = "Leaf" -> analyzeLeaf(e, scope, A)
      [] e.k = "Node" -> analyzeNode(e, scope, A)
      [] e.k = "FunctionCall" -> analyzeFunctionCall(e, scope, A)
      [] e.k = "LambdaFunction" -> analyzeLambda(e, scope, A)
      [] OTHER -> Typed("any", A)

\* the condition of an if, elsif or while, which expects a boolean
analyzeCondition(keyword, condition, scope, A) ==
    LET condType == analyzeExpr(condition, scope, A) IN
    IF condType.type \notin {"boolean", "any"}
    THEN addError(condType.A,
                  "'" \o keyword \o "' condition expects boolean, got " \o condType.type,
                  getLine(condition))
    ELSE condType.A

\* this.analyzeBlock(statements, scope.createChild())
analyzeChildBlock(statements, scope, A) ==
    LET A1 == createChild(A, scope) IN analyzeBlock(statements, Child(A1), A1)

RECURSIVE analyzeElsifs(_, _, _)
analyzeElsifs(branches, scope, A) ==
    IF branches = << >> THEN A
    ELSE analyzeElsifs(Tail(branches), scope,
             analyzeChildBlock(Head(branches).body, scope,
                 analyzeCondition("elsif", Head(branches).condition, scope, A)))

analyzeIf(stmt, scope, A) ==
    LET A1 == analyzeChildBlock(stmt.thenBranch, scope,
                                analyzeCondition("if", stmt.condition, scope, A))
        A2 == analyzeElsifs(stmt.elsifBranches, scope, A1)
    IN  IF stmt.hasElse THEN analyzeChildBlock(stmt.elseBranch, scope, A2) ELSE A2

analyzeFor(stmt, scope, A) ==
    LET A1 == createChild(analyzeExpr(stmt.iterable, scope, A).A, scope)
        childScope == Child(A1)
        A2 == IF stmt.indexVar # NoIndex
              THEN SymbolTable_define(A1, childScope, stmt.indexVar, "any") ELSE A1
    IN  analyzeBlock(stmt.body, childScope,
                     SymbolTable_define(A2, childScope, stmt.itemVar, "any"))

analyzeFn(stmt, scope, A) ==
    LET A1 == createChild(SymbolTable_define(A, scope, stmt.name, "any"), scope)
        fnScope == Child(A1)
    IN  analyzeBlock(stmt.body, fnScope, defineAll(A1, fnScope, stmt.params, "any"))

analyzeTry(stmt, scope, A) ==
    LET A1 == analyzeChildBlock(stmt.tryBlock, scope, A)
        C1 == createChild(A1, scope)
        A2 == IF stmt.catchBlock # NoBlock
              THEN analyzeBlock(stmt.catchBlock, Child(C1),
                                IF stmt.catchVar # ""
                                THEN SymbolTable_define(C1, Child(C1), stmt.catchVar, "any")
                                ELSE C1)
              ELSE A1
    IN  IF stmt.finallyBlock # NoBlock THEN analyzeChildBlock(stmt.finallyBlock, scope, A2)
        ELSE A2

analyzeStmt(stmt, scope, A) ==
    CASE stmt.k = "LetStmt" ->
            LET type == analyzeExpr(stmt.initializer, scope, A) IN
            SymbolTable_define(type.A, scope, stmt.name, type.type)
      [] stmt.k = "ExprStmt" -> analyzeExpr(stmt.expr, scope, A).A
      [] stmt.k = "IfStmt" -> analyzeIf(stmt, scope, A)
      [] stmt.k = "WhileStmt" ->
            analyzeChildBlock(stmt.body, scope,
                              analyzeCondition("while", stmt.condition, scope, A))
      [] stmt.k = "ForStmt" -> analyzeFor(stmt, scope, A)
      [] stmt.k = "BlockStmt" -> analyzeChildBlock(stmt.statements, scope, A)
      [] stmt.k = "ReturnStmt" ->
            IF stmt.hasValue THEN analyzeExpr(stmt.value, scope, A).A ELSE A
      [] stmt.k = "FnStmt" -> analyzeFn(stmt, scope, A)
      [] stmt.k = "TryStmt" -> analyzeTry(stmt, scope, A)
      [] stmt.k = "ThrowStmt" -> analyzeExpr(stmt.value, scope, A).A
      [] OTHER -> A

RECURSIVE StaticAnalyzer_analyzeBlock(_, _, _)
StaticAnalyzer_analyzeBlock(statements, scope, A) ==
    IF statements = << >> THEN A
    ELSE StaticAnalyzer_analyzeBlock(Tail(statements), scope,
                                     analyzeStmt(Head(statements), scope, A))

\* a catch block without its ParseError branch
lineOfError_noToken(error) == IF error.name = "Error" THEN error.at ELSE 0

\* the line the catch block of analyze reads off the error: the token's of a
\* ParseError, and of any other error the number that follows `at ` in its
\* message, which is the line of the lexer when no text of the script
\* quoted by the message holds `at <digit>` or `line=<digit>` itself
lineOfError(error) ==
    IF error.name = "ParseError" /\ error.token.line # 0 THEN error.token.line
    ELSE IF error.name = "Error" THEN error.at
    ELSE 0

\* analyzer.analyze(code): the analyzer after it, whose diagnostics it
\* returns; the symbol tables left unreachable are dropped
StaticAnalyzer_analyze(A, code) ==
    dispatch([method |-> "StaticAnalyzer.analyze", A |-> A, code |-> code])

StaticAnalyzer_analyze_method(A, code) ==
    LET parsed == ScriptParser_parse(code)
        A0 == [A EXCEPT !.diagnostics = << >>]
        A1 == IF Ok(parsed.S) THEN analyzeBlock(parsed.statements, 1, A0)
              ELSE addError(A0, parsed.S.error.message, lineOfError(parsed.S.error))
    IN  [scopes |-> <<A1.scopes[1]>>, diagnostics |-> A1.diagnostics]

(***************************************************************************)
(* The bodies of the methods called through dispatch.                      *)
(***************************************************************************)
dispatch(call) ==
    CASE call.method = "AviatorLexer.next" -> AviatorLexer_next(call.lexer)
      [] call.method = "ScriptParser.expr" -> ScriptParser_expr(call.ubp, call.parser)
      [] call.method = "ScriptParser.statement" -> ScriptParser_statement(call.parser)
      [] call.method = "ScriptParser.block" -> ScriptParser_block(call.parser)
      [] call.method = "ScriptParser.parse" -> ScriptParser_parse_static(call.code)
      [] call.method = "StaticAnalyzer.analyzeExpr" ->
            StaticAnalyzer_analyzeExpr(call.expr, call.scope, call.A)
      [] call.method = "StaticAnalyzer.analyzeBlock" ->
            StaticAnalyzer_analyzeBlock(call.statements, call.scope, call.A)
      [] call.method = "StaticAnalyzer.analyze" ->
            StaticAnalyzer_analyze_method(call.A, call.code)

(***************************************************************************)
(* The scripts of the model.  A source is a record of parameters; Code     *)
(* gives its statement forms.                                              *)
(***************************************************************************)
True == Leaf("TRUE", "true")
False == Leaf("FALSE", "false")
NilLit == Leaf("NIL", "nil")
Bin(op, a, b) == Node2(op, a, b)
Asg(name, e) == Node2("ASSIGN", Id(name), e)
Call(name, args) == FunctionCall(Id(name), args)
Plus(a, b) == Node2("ADD", a, b)
Eq(a, b) == Node2("EQUAL", a, b)
If(c, thenBranch) == IfStmt(c, thenBranch, << >>, FALSE, << >>)
Let(name, e) == LetStmt(name, e)
Return(e) == ReturnStmt(TRUE, e)
S(e) == SrcExpr(e, TRUE)     \* e;
V(e) == SrcExpr(e, FALSE)    \* e

RECURSIVE Literals(_, _)
\* the literals from, from + 1, ..., to
Literals(from, to) ==
    IF from > to THEN << >> ELSE <<Num(from)>> \o Literals(from + 1, to)

RECURSIVE Repeat(_, _)
Repeat(items, n) == IF n = 0 THEN << >> ELSE items \o Repeat(items, n - 1)

\* let a = 1; let b = 2; <last>   with or without a closing semicolon
ValueCode(p) ==
    LET e == CASE p.last = "expr" -> Plus(Id("a"), Id("b"))
               [] p.last = "assign" -> Asg("c", Plus(Id("a"), Id("b")))
               [] p.last = "call" -> Call("identity", <<Id("a")>>)
               [] p.last = "literal" -> True
    IN  <<Let("a", Num(1)), Let("b", Num(2)), SrcExpr(e, p.semi)>>

\* fn counter() { let c = 0; return lambda() -> c = c + 1 end; }
CounterFn ==
    FnStmt("counter", << >>,
           <<Let("c", Num(0)),
             Return(LambdaFunction(<< >>, Asg("c", Plus(Id("c"), Num(1)))))>>)

\* the closure f = counter() called p.calls times from the site p.site
CounterCode(p) ==
    LET callSites ==
    CASE p.site = "top" ->
            Repeat(<<S(Asg("r", Call("f", << >>)))>>, p.calls)
      [] p.site = "block" ->
            Repeat(<<BlockStmt(<<Let("c", Num(5)), S(Asg("r", Call("f", << >>)))>>)>>,
                   p.calls)
      [] p.site = "fn" ->
            <<FnStmt("g", << >>, <<Let("c", Num(5)), V(Call("f", << >>))>>)>> \o
            Repeat(<<S(Asg("r", Call("g", << >>)))>>, p.calls)
      [] p.site = "other" ->
            \* a second closure of counter() has a frame of its own
            <<Let("h", Call("counter", << >>)), S(Call("h", << >>)),
              S(Call("h", << >>))>> \o
            Repeat(<<S(Asg("r", Call("f", << >>)))>>, p.calls)
    IN  <<CounterFn, Let("f", Call("counter", << >>)), Let("r", Num(0))>>
        \o callSites \o <<V(Id("r"))>>

\* the statement that raises p.sig when x = p.at, wrapped as p.wrap says
SignalStmt(p) ==
    LET sig == IF p.sig = "break" THEN BreakStmt ELSE ContinueStmt
        hit == Eq(Id("x"), Num(p.at))
        more == S(Asg("n", Plus(Id("n"), Num(10))))
    IN  CASE p.wrap = "if" -> If(hit, <<sig>>)
          [] p.wrap = "block" -> If(hit, <<BlockStmt(<<BlockStmt(<<sig>>)>>)>>)
          [] p.wrap = "else" ->
                IfStmt(Bin("NOT_EQUAL", Id("x"), Num(p.at)), << >>, << >>, TRUE, <<sig>>)
          [] p.wrap = "elsif" ->
                IfStmt(False, << >>, <<[condition |-> hit, body |-> <<sig>>]>>,
                       FALSE, << >>)
          [] p.wrap = "after" -> If(hit, <<sig, more>>)

\* let n = 0; <loop over 1..p.len> { n = n + 1; <signal>; n = n + 10 } n
LoopCode(p) ==
    LET body == <<S(Asg("n", Plus(Id("n"), Num(1))))>> \o
                (IF p.sig = "none" THEN << >> ELSE <<SignalStmt(p)>>) \o
                <<S(Asg("n", Plus(Id("n"), Num(10))))>>
        loop ==
        CASE p.loop = "for" ->
                <<ForStmt(NoIndex, "x", Call("tuple", Literals(1, p.len)), body)>>
          [] p.loop = "forindex" ->
                <<ForStmt("i", "x", Call("tuple", Literals(1, p.len)), body)>>
          [] p.loop = "while" ->
                <<Let("x", Num(0)),
                  WhileStmt(Bin("LESS_THAN", Id("x"), Num(p.len)),
                            <<S(Asg("x", Plus(Id("x"), Num(1))))>> \o body)>>
    IN  <<Let("n", Num(0))>> \o loop \o <<V(Id("n"))>>

\* an inner loop whose signal must not reach the outer loop
NestedCode(p) ==
    LET sig == IF p.sig = "break" THEN BreakStmt ELSE ContinueStmt
        inner == ForStmt(NoIndex, "x", Call("tuple", Literals(1, p.len)),
                         <<If(Eq(Id("x"), Num(p.at)), <<sig>>),
                           S(Asg("n", Plus(Id("n"), Num(1))))>>)
    IN  <<Let("n", Num(0)),
          ForStmt(NoIndex, "y", Call("tuple", Literals(1, 2)),
                  <<inner, S(Asg("n", Plus(Id("n"), Num(10))))>>),
          V(Id("n"))>>

\* fn f(a) { <return a + 1, inside p.shape>; return 0 }  let r = f(1); r + 1
ReturnCode(p) ==
    LET ret == Return(Plus(Id("a"), Num(1)))
        inside ==
            CASE p.shape = "plain" -> <<ret>>
              [] p.shape = "block" -> <<BlockStmt(<<ret, S(Asg("a", Num(7)))>>)>>
              [] p.shape = "if" -> <<If(Eq(Id("a"), Num(1)), <<ret>>)>>
              [] p.shape = "while" -> <<WhileStmt(True, <<ret>>)>>
              [] p.shape = "for" ->
                    <<ForStmt(NoIndex, "x", Call("tuple", Literals(1, 2)), <<ret>>)>>
              [] p.shape = "nested" ->
                    <<ForStmt(NoIndex, "x", Call("tuple", Literals(1, 2)),
                              <<WhileStmt(True, <<BlockStmt(<<ret>>)>>)>>)>>
    IN  <<FnStmt("f", <<"a">>, inside \o <<Return(Num(0))>>),
          Let("r", Call("f", <<Num(1)>>)),
          V(Plus(Id("r"), Num(1)))>>

\* blocks and closure calls left on each kind of exit path
ScopeCode(p) ==
    CASE p.variant = "let" ->
            <<Let("a", Num(1)),
              BlockStmt(<<Let("a", Num(2)), S(Asg("a", Plus(Id("a"), Num(1))))>>),
              V(Id("a"))>>
      [] p.variant = "letnew" ->
            <<Let("a", Num(1)), BlockStmt(<<Let("b", Num(2))>>), V(Id("b"))>>
      [] p.variant = "throw" ->
            <<Let("a", Num(1)),
              BlockStmt(<<Let("b", Num(2)), BlockStmt(<<S(Call("nofn", << >>))>>)>>),
              V(Id("a"))>>
      [] p.variant = "fnthrow" ->
            <<FnStmt("f", << >>, <<Let("b", Num(2)), S(Call("nofn", << >>))>>),
              BlockStmt(<<S(Call("f", << >>))>>)>>
      [] p.variant = "lambdathrow" ->
            <<Let("g", LambdaFunction(<<"b">>, Call("nofn", << >>))),
              BlockStmt(<<S(Call("g", <<Num(1)>>))>>)>>
      [] p.variant = "signal" ->
            <<Let("a", Num(1)),
              WhileStmt(True, <<BlockStmt(<<Let("b", Num(2)), BreakStmt>>)>>),
              V(Id("b"))>>
      [] p.variant = "lambda" ->
            <<Let("a", Num(1)),
              Let("g", LambdaFunction(<<"b">>, Plus(Id("a"), Id("b")))),
              BlockStmt(<<Let("a", Num(2)), S(Asg("a", Call("g", <<Num(3)>>)))>>),
              V(Id("a"))>>

\* scripts that read the context variable x and bind names of their own
LeakCode(p) ==
    LET fresh(name) == Eq(Id(name), NilLit) IN
    CASE p.variant = "assign" ->
            <<S(Asg("y", Node3("CONDITIONAL", fresh("y"), Id("x"),
                               Plus(Id("y"), Num(1))))),
              V(Id("y"))>>
      [] p.variant = "let" ->
            <<Let("z", Node3("CONDITIONAL", fresh("z"), Id("x"),
                             Plus(Id("z"), Num(1)))),
              V(Id("z"))>>
      [] p.variant = "fn" ->
            <<Let("r", Node3("CONDITIONAL", fresh("f"), Id("x"), Num(9))),
              FnStmt("f", << >>, <<V(Id("x"))>>),
              V(Id("r"))>>
      [] p.variant = "builtin" ->
            <<Let("r", Call("identity", <<Id("x")>>)),
              S(Asg("identity", Num(0))),
              V(Id("r"))>>

\* let r = 0; <c = 1; r = c; at p.site>  tuple(r, c)
AssignCode(p) ==
    LET body == <<S(Asg("c", Num(1))), S(Asg("r", Id("c")))>>
        site ==
        CASE p.site = "top" -> body
          [] p.site = "existing" -> <<Let("c", Num(0)), BlockStmt(body)>>
          [] p.site = "block" -> <<BlockStmt(body)>>
          [] p.site = "if" -> <<If(True, body)>>
          [] p.site = "for" ->
                <<ForStmt(NoIndex, "x", Call("tuple", Literals(1, 1)), body)>>
          [] p.site = "fn" ->
                <<FnStmt("f", << >>, body \o <<Return(Num(0))>>), S(Call("f", << >>))>>
          [] p.site = "lambda" ->
                <<Let("g", LambdaFunction(<< >>, Asg("r", Asg("c", Num(1))))),
                  S(Call("g", << >>))>>
    IN  <<Let("r", Num(0))>> \o site \o <<V(Call("tuple", <<Id("r"), Id("c")>>))>>

\* n = n * 10 + d: the expression that leaves the digit d in n when evaluated
Mark(d) ==
    Asg("n", Plus(Bin("MULTIPLY", Id("n"), Num(10)), Num(d)))

\* let n = 0; <an expression whose operands are Mark(1), Mark(2), ...>
OrderCode(p) ==
    LET e ==
        CASE p.shape = "binary" -> Plus(Mark(1), Mark(2))
          [] p.shape = "nested" -> Plus(Plus(Mark(1), Mark(2)), Bin("MULTIPLY", Mark(3), Mark(4)))
          [] p.shape = "compare" -> Bin("LESS_THAN", Mark(1), Mark(2))
          [] p.shape = "call" -> Call("tuple", <<Mark(1), Mark(2), Mark(3)>>)
          [] p.shape = "subscript" -> Bin("LEFT_BRACKET", Call("tuple", <<Mark(1)>>), Mark(2))
          [] p.shape = "ternary" -> Node3("CONDITIONAL", Mark(1), Mark(2), Mark(3))
          [] p.shape = "assign" -> Asg("m", Plus(Mark(1), Mark(2)))
          [] p.shape = "assignSubscript" ->
                Node2("ASSIGN", Bin("LEFT_BRACKET", Mark(1), Mark(2)), Mark(3))
          [] p.shape = "assignDot" ->
                Node2("ASSIGN", Bin("DOT", Mark(1), Id("p")), Mark(2))
    IN  <<Let("n", Num(0)), V(e)>>

\* let r = nil; for <names> in seq.map(1, 10, 2, 5) { r = <read> }  r
ForMapCode(p) ==
    LET m == Call("seq.map", <<Num(1), Num(10), Num(2), Num(5)>>)
        read == CASE p.read = "item" -> Id("v")
                  [] p.read = "index" -> Id("k")
                  [] p.read = "key" -> Bin("DOT", Id("v"), Id("key"))
                  [] p.read = "value" -> Bin("DOT", Id("v"), Id("value"))
        names == IF p.names = 2 THEN "k" ELSE NoIndex
    IN  <<Let("r", NilLit), Let("k", Num(0)),
          ForStmt(names, "v", m, <<S(Asg("r", read))>>),
          V(Id("r"))>>

\* return, break and continue at the top level of a script and in the body
\* of a fn, outside every loop
EscapeCode(p) ==
    LET f(body) == FnStmt("f", << >>, body) IN
    CASE p.at = "topReturn" -> <<Let("a", Num(1)), Return(Id("a")), V(Num(2))>>
      [] p.at = "topBreak" -> <<Let("a", Num(1)), BreakStmt, V(Num(2))>>
      [] p.at = "topContinue" -> <<ContinueStmt>>
      [] p.at = "ifReturn" -> <<If(True, <<Return(Num(1))>>), V(Num(2))>>
      [] p.at = "fnReturn" -> <<f(<<Return(Num(1))>>), V(Call("f", << >>))>>
      [] p.at = "fnBreak" -> <<f(<<BreakStmt, Return(Num(1))>>), V(Call("f", << >>))>>
      [] p.at = "fnContinue" ->
            <<f(<<If(True, <<ContinueStmt>>), Return(Num(1))>>),
              Let("r", Call("f", << >>)), V(Num(2))>>
      [] p.at = "fnLoop" ->
            <<f(<<WhileStmt(True, <<BreakStmt>>), Return(Num(1))>>), V(Call("f", << >>))>>

Code(p) ==
    CASE p.family = "value" -> ValueCode(p)
      [] p.family = "escape" -> EscapeCode(p)
      [] p.family = "assign" -> AssignCode(p)
      [] p.family = "order" -> OrderCode(p)
      [] p.family = "formap" -> ForMapCode(p)
      [] p.family = "counter" -> CounterCode(p)
      [] p.family = "loop" -> LoopCode(p)
      [] p.family = "nested" -> NestedCode(p)
      [] p.family = "return" -> ReturnCode(p)
      [] p.family = "scope" -> ScopeCode(p)
      [] p.family = "leak" -> LeakCode(p)

Sources ==
    [family : {"value"}, last : {"expr", "assign", "call", "literal"}, semi : BOOLEAN]
    \cup [family : {"counter"}, calls : 1..MaxCalls,
          site : {"top", "block", "fn", "other"}]
    \cup {p \in [family : {"loop"}, loop : {"for", "forindex", "while"},
                 len : 1..MaxLen, at : 1..MaxLen,
                 sig : {"break", "continue", "none"},
                 wrap : {"if", "block", "else", "elsif", "after"}] :
            /\ p.at <= p.len
            /\ p.sig = "none" => (p.at = 1 /\ p.wrap = "if")}
    \cup {p \in [family : {"nested"}, len : 1..MaxLen, at : 1..MaxLen,
                 sig : {"break", "continue"}] : p.at <= p.len}
    \cup [family : {"return"},
          shape : {"plain", "block", "if", "while", "for", "nested"}]
    \cup [family : {"scope"},
          variant : {"let", "letnew", "throw", "fnthrow", "lambdathrow",
                     "signal", "lambda"}]
    \cup [family : {"leak"}, variant : {"assign", "let", "fn", "builtin"}]
    \cup [family : {"assign"},
          site : {"top", "existing", "block", "if", "for", "fn", "lambda"}]
    \cup [family : {"order"},
          shape : {"binary", "nested", "compare", "call", "subscript", "ternary", "assign",
                   "assignSubscript", "assignDot"}]
    \cup [family : {"formap"}, names : 1..2, read : {"item", "index", "key", "value"}]
    \cup [family : {"escape"},
          at : {"topReturn", "topBreak", "topContinue", "ifReturn", "fnReturn", "fnBreak",
                "fnContinue", "fnLoop"}]

\* the contexts a caller passes to execute
Contexts == {<< >>} \cup {[x \in {"x"} |-> NumV(n)] : n \in 1..2}

NoSource == [family |-> "none"]
NoPending == [kind |-> "none"]
NoCall == [op |-> "none", r |-> Nil]
NoCalls == [n |-> 0, last |-> NoCall, returned |-> {}, executes |-> 0]
NoPromise == [made |-> FALSE, value |-> Nil]

\* no StaticAnalyzer constructed yet
NoAnalyzer == [scopes |-> << >>, diagnostics |-> << >>]

(***************************************************************************)
(* The script driver: a host calling execute, compile and handle.execute.  *)
(***************************************************************************)
InitScript ==
    /\ pc = "idle"
    /\ source = NoSource
    /\ handle = << >>
    /\ interp = Interpreter(<< >>)
    /\ result = Undefined
    /\ runs = 0
    /\ history = << >>
    /\ pending = NoPending
    /\ before = NoPending
    /\ calls = NoCalls
    /\ promise = NoPromise
    /\ tokenizer = AviatorLexer(<< >>)
    /\ emitted = << >>
    /\ analyzer = NoAnalyzer

\* aviator.execute(code, context)
Execute(src, context) ==
    /\ pc = "idle"
    /\ \E r \in {AviatorScript_execute(Code(src), context)} :
       /\ result' = r.v
       /\ interp' = r.I
    /\ source' = src
    /\ pc' = "executed"
    /\ UNCHANGED <<handle, runs, history, pendingVars, toolVars>>

\* const h = aviator.compile(code)
Compile(src) ==
    /\ pc = "idle"
    /\ handle' = AviatorScript_compile(Code(src))
    /\ source' = src
    /\ pc' = "compiled"
    /\ UNCHANGED <<interp, result, runs, history, pendingVars, toolVars>>

\* h.execute(context)
HandleExecute(context) ==
    /\ pc = "compiled"
    /\ runs < MaxRuns
    /\ \E r \in {handle_execute(handle, context, interp)} :
       /\ result' = r.v
       /\ interp' = r.I
       /\ history' = Append(history, [context |-> context, result |-> r.v])
    /\ runs' = runs + 1
    /\ UNCHANGED <<pc, source, handle, pendingVars, toolVars>>

NextScript ==
    \/ \E src \in Sources, context \in Contexts : Execute(src, context)
    \/ \E src \in Sources : Compile(src)
    \/ \E context \in Contexts : HandleExecute(context)

SpecScript == InitScript /\ [][NextScript]_vars

(***************************************************************************)
(* The expressions of the model and the parser as a state machine.         *)
(***************************************************************************)
BinaryOperators ==
    DOMAIN OperatorLexeme \ {"LOGIC_NOT", "BIT_NOT", "CONDITIONAL", "LEFT_BRACKET"}

OperandText == [ident |-> <<"x", "y", "z">>, number |-> <<"1", "2", "3">>]
OperandLeaf(p, i) ==
    Leaf(IF p.operands = "ident" THEN "IDENTIFIER" ELSE "NUMBER", OperandText[p.operands][i])

\* x a y b z, with or without blanks around the operators
PairText(p) ==
    LET gap == IF p.spacing = "spaced" THEN <<" ">> ELSE << >>
        o == OperandText[p.operands]
    IN  <<o[1]>> \o gap \o OperatorLexeme[p.a] \o gap \o <<o[2]>> \o gap \o
        OperatorLexeme[p.b] \o gap \o <<o[3]>>

ShapeText(p) ==
    CASE p.shape = "unary" -> <<"-", "x", "*", "y">>
      [] p.shape = "not" -> <<"!", "x", "&", "&", "y">>
      [] p.shape = "paren" -> <<"(", "x", "+", "y", ")", "*", "z">>
      [] p.shape = "call" -> <<"f", "(", "x", ",", "y", "+", "1", ")">>
      [] p.shape = "call0" -> <<"f", "(", ")">>
      [] p.shape = "index" -> <<"x", "[", "1", "]", "(", "y", ")">>
      [] p.shape = "ternary" -> <<"x", "?", "y", ":", "z", "?", "1", ":", "2">>
      [] p.shape = "lambda" ->
            <<"l", "a", "m", "b", "d", "a", "(", "x", ")", "-", ">", "x", " ", "e", "n", "d">>
      [] p.shape = "comment" -> <<"x", "#", "#", "y", "\n", "+", "z">>
      [] p.shape = "nothing" -> << >>
      [] p.shape = "unclosed" -> <<"(", "x">>
      [] p.shape = "string" -> <<"'", "x", "'", "+", "y">>
      [] p.shape = "dotRight" -> <<"x", ".", "(", "y", ".", "z", ")">>
      [] p.shape = "dotIndex" -> <<"(", "x", "[", "1", "]", ")", ".", "y">>
      [] p.shape = "lambda0" ->
            <<"l", "a", "m", "b", "d", "a", " ", "(", ")", " ", "-", ">", " ", "1", " ",
              "e", "n", "d">>
      [] p.shape = "lambda2" ->
            <<"l", "a", "m", "b", "d", "a", "(", "x", ",", "y", ")", "-", ">", "x", "+",
              "y", " ", "e", "n", "d">>
      [] p.shape = "lambdaComma" ->
            <<"l", "a", "m", "b", "d", "a", "(", "x", ",", ")", "-", ">", "x", " ", "e",
              "n", "d">>

PrattCode(p) == IF p.family = "pair" THEN PairText(p) ELSE ShapeText(p)

\* 1.2 is one number literal, not the operator `.` between two numbers
PrattSources ==
    {p \in [family : {"pair"}, a : BinaryOperators, b : BinaryOperators,
            operands : {"ident", "number"}, spacing : {"spaced", "tight"}] :
        ~(p.operands = "number" /\ p.spacing = "tight" /\ "DOT" \in {p.a, p.b})}
    \cup [family : {"shape"},
          shape : {"unary", "not", "paren", "call", "call0", "index", "ternary",
                   "lambda", "comment", "nothing", "unclosed", "string", "dotRight",
                   "dotIndex", "lambda0", "lambda2", "lambdaComma"}]

\* Pratt.parse(code)
Parse(src) ==
    /\ pc = "idle"
    /\ result' = Pratt_parse(PrattCode(src))
    /\ source' = src
    /\ pc' = "parsed"
    /\ UNCHANGED <<handle, interp, runs, history, pendingVars, toolVars>>

NextPratt == \E src \in PrattSources : Parse(src)

SpecPratt == InitScript /\ [][NextPratt]_vars

(***************************************************************************)
(* The pending-execution driver: an expression is compiled to a tree, and  *)
(* then provide, canExecute and execute are called on it in any order.     *)
(***************************************************************************)
PendingText ==
    [value |-> <<"a">>,
     and |-> <<"a", " ", "&", "&", " ", "b">>,
     or |-> <<"a", " ", "|", "|", " ", "b">>,
     notAnd |-> <<"!", "a", " ", "&", "&", " ", "b">>,
     conditional |-> <<"a", " ", "?", " ", "b", " ", ":", " ", "!", "b">>,
     nested |-> <<"(", "a", " ", "|", "|", " ", "b", ")", " ", "&", "&", " ", "a">>,
     compare |-> <<"a", " ", "=", "=", " ", "1", " ", "|", "|", " ", "b">>,
     guarded |-> <<"(", "a", " ", "?", " ", "b", " ", ":", " ", "a", ")",
                   " ", "&", "&", " ", "b">>]

\* expressions over the boolean variables a, b and c
EarlyText ==
    [and |-> <<"a", " ", "&", "&", " ", "b">>,
     or |-> <<"a", " ", "|", "|", " ", "b">>,
     notOr |-> <<"!", "a", " ", "|", "|", " ", "b">>,
     notAll |-> <<"!", "(", "a", " ", "&", "&", " ", "b", ")">>,
     conditional |-> <<"a", " ", "?", " ", "b", " ", ":", " ", "c">>,
     nested |-> <<"(", "a", " ", "|", "|", " ", "b", ")", " ", "&", "&", " ", "c">>,
     shared |-> <<"(", "a", " ", "|", "|", " ", "b", ")", " ", "&", "&", " ", "!", "a">>,
     guarded |-> <<"(", "a", " ", "?", " ", "b", " ", ":", " ", "c", ")",
                   " ", "|", "|", " ", "!", "b">>,
     chosen |-> <<"(", "a", " ", "&", "&", " ", "b", ")", " ", "?", " ", "c", " ", ":",
                  " ", "!", "c">>]

PendingSources == [family : {"pending"}, text : DOMAIN PendingText]
EarlySources == [family : {"early"}, text : DOMAIN EarlyText]
PendingCode(src) ==
    IF src.family = "early" THEN EarlyText[src.text] ELSE PendingText[src.text]
Variables == {"a", "b", "c"}
Booleans == {BoolV(TRUE), BoolV(FALSE)}
Symbols == {"a", "b"}
Provided == {BoolV(TRUE), BoolV(FALSE), NumV(1)}

Called(op, r) == [calls EXCEPT !.n = @ + 1, !.last = [op |-> op, r |-> r]]

\* const pe = AviatorPendingExecutionFactory.compile(runtime, expression)
CompilePending(src) ==
    /\ pc = "idle"
    /\ pending' = AviatorPendingExecutionFactory_compile(PendingCode(src))
    /\ source' = src
    /\ pc' = "pending"
    /\ UNCHANGED <<scriptVars, before, calls, promise, toolVars>>

\* pe.provide(symbol, value)
Provide(symbol, value) ==
    /\ pc = "pending"
    /\ calls.n < MaxOps
    /\ pending' = provide(pending, symbol, value)
    /\ before' = pending
    /\ calls' = Called("provide", Nil)
    /\ UNCHANGED <<pc, source, scriptVars, promise, toolVars>>

\* pe.canExecute(); the first time it holds, what pe.execute() returns
\* now is kept
CanExecute ==
    /\ pc = "pending"
    /\ calls.n < MaxOps
    /\ \E call \in {canExecute(pending)} :
       /\ pending' = call.pe
       /\ calls' = Called("canExecute", call.r)
       /\ promise' = IF ~promise.made /\ call.r = BoolV(TRUE)
                     THEN [made |-> TRUE, value |-> executePending(call.pe).r]
                     ELSE promise
    /\ before' = pending
    /\ UNCHANGED <<pc, source, scriptVars, toolVars>>

\* pe.execute()
ExecutePending ==
    /\ pc = "pending"
    /\ calls.n < MaxOps
    /\ \E call \in {executePending(pending)} :
       /\ pending' = call.pe
       /\ calls' = [Called("execute", call.r) EXCEPT
                        !.returned = IF IsThrow(call.r) THEN @ ELSE @ \cup {call.r},
                        !.executes = IF IsThrow(call.r) THEN @ ELSE @ + 1]
    /\ before' = pending
    /\ UNCHANGED <<pc, source, scriptVars, promise, toolVars>>

RECURSIVE Given(_)
\* what the ValueExecutions of a tree have been provided with
Given(pe) ==
    CASE pe.kind = "Value" -> pe.context
      [] pe.kind \in {"And", "Or"} -> Given(pe.left) @@ Given(pe.right)
      [] pe.kind = "Not" -> Given(pe.child)
      [] pe.kind = "Conditional" ->
            Given(pe.condition) @@ Given(pe.thenExpr) @@ Given(pe.elseExpr)

\* pe.provide(symbol, value) by a host that provides no symbol twice
ProvideOnce(symbol, value) ==
    /\ pc = "pending"
    /\ symbol \notin DOMAIN Given(pending)
    /\ Provide(symbol, value)

NextPending ==
    \/ \E src \in PendingSources : CompilePending(src)
    \/ \E symbol \in Symbols, value \in Provided : Provide(symbol, value)
    \/ CanExecute
    \/ ExecutePending

SpecPending == InitScript /\ [][NextPending]_vars

NextEarly ==
    \/ \E src \in EarlySources : CompilePending(src)
    \/ \E symbol \in Variables, value \in Booleans : ProvideOnce(symbol, value)
    \/ CanExecute
    \/ ExecutePending

SpecEarly == InitScript /\ [][NextEarly]_vars

(***************************************************************************)
(* The identifier driver: a ValueExecution is constructed over a tree the  *)
(* parser can produce (parentheses leave no node behind).                  *)
(***************************************************************************)
TreeAtoms == {Id("a"), Id("b"), Id("identity"), Num(1)}

\* the trees one constructor above the trees of inner, with atoms beside them
TreesOver(inner) ==
    {Node2("DOT", t, u) : t \in inner, u \in TreeAtoms}
    \cup {Node2("DOT", u, t) : t \in inner, u \in TreeAtoms}
    \cup {Node2("ADD", t, u) : t \in inner, u \in TreeAtoms}
    \cup {LambdaFunction(<<"a">>, t) : t \in inner}
    \cup {FunctionCall(u, <<t>>) : t \in inner, u \in {Id("b"), Id("identity")}}

IdentifierTrees == TreeAtoms \cup TreesOver(TreeAtoms) \cup TreesOver(TreesOver(TreeAtoms))

\* new ValueExecution(runtime, node)
NewValueExecution(node) ==
    /\ pc = "idle"
    /\ pending' = ValueExecution(node)
    /\ source' = [family |-> "tree", tree |-> node]
    /\ pc' = "extracted"
    /\ UNCHANGED <<scriptVars, before, calls, promise, toolVars>>

NextIdentifiers == \E node \in IdentifierTrees : NewValueExecution(node)

SpecIdentifiers == InitScript /\ [][NextIdentifiers]_vars

(***************************************************************************)
(* The lexer driver: a host constructs a lexer over a text and calls       *)
(* next() until the end of the text.                                       *)
(***************************************************************************)
LexerAlphabet == {"a", "=", "-", "#", " ", "\n"}

RECURSIVE Texts(_)
\* the texts of n characters
Texts(n) ==
    IF n = 0 THEN {<< >>}
    ELSE {Append(text, c) : text \in Texts(n - 1), c \in LexerAlphabet}

LexerSources == UNION {Texts(n) : n \in 1..MaxText}

RECURSIVE firstCharacter(_, _)
\* the position, from 0, of the first character at or after position i that
\* belongs to a token: blanks, newlines, comments and a lone # belong to none
firstCharacter(code, i) ==
    IF i >= Len(code) THEN Len(code)
    ELSE IF code[i + 1] \in {" ", "\n"} THEN firstCharacter(code, i + 1)
    ELSE IF code[i + 1] = "#"
    THEN IF i + 1 < Len(code) /\ code[i + 2] = "#"
         THEN firstCharacter(code, untilMeet([code |-> code, cursor |-> i], {"\n"}).cursor + 1)
         ELSE firstCharacter(code, i + 1)
    ELSE i

\* const lexer = new AviatorLexer(code)
NewLexer(code) ==
    /\ pc = "idle"
    /\ tokenizer' = AviatorLexer(code)
    /\ emitted' = << >>
    /\ source' = code
    /\ pc' = "lexing"
    /\ UNCHANGED <<scriptVars, pendingVars, analyzer>>

\* lexer.next(), until it has returned the EOF token
NextToken ==
    /\ pc = "lexing"
    /\ tokenizer.lastToken.type # "EOF" \/ emitted = << >>
    /\ \E L \in {invoke([method |-> "AviatorLexer.next", lexer |-> tokenizer])} :
       /\ tokenizer' = L
       /\ emitted' = Append(emitted,
                            [token |-> L.lastToken,
                             first |-> firstCharacter(tokenizer.code, tokenizer.cursor + 1)])
    /\ UNCHANGED <<pc, source, scriptVars, pendingVars, analyzer>>

NextLexer ==
    \/ \E code \in LexerSources : NewLexer(code)
    \/ NextToken

SpecLexer == InitScript /\ [][NextLexer]_vars

\* the texts of tokens that precede a slash, one of every kind of last token
\* LexerState tells apart and some of the other kinds, bare or followed by a
\* blank or a newline
SlashHeads ==
    {<< >>, <<"1">>, <<"a">>, <<")">>, <<"]">>, <<"(">>, <<"[">>, <<"+">>, <<",">>,
     <<"=">>, <<"'", "x", "'">>, <<"t", "r", "u", "e">>, <<"/", "a", "/">>,
     <<"a", " ">>, <<"1", " ">>, <<"(", " ">>, <<"a", "\n">>, <<"a", ".", "b">>}

SlashTails ==
    {<< >>, <<"a">>, <<"a", "/">>, <<"1">>, <<" ", "a", "/">>, <<"/">>, <<"/", "a", "/">>}

\* the texts of what follows the dot after an identifier
DotTails ==
    {<< >>, <<"1">>, <<"b">>, <<" ">>, <<" ", "b">>, <<"(">>, <<".">>, <<".", "b">>,
     <<"\n">>, <<"_">>, <<"'", "x", "'">>, <<"1", ".", "b">>, <<"b", ".">>, <<"b", ".", "1">>}

PunctuationSources ==
    {head \o <<"/">> \o tail : head \in SlashHeads, tail \in SlashTails}
    \cup {<<"a", ".">> \o tail : tail \in DotTails}

NextPunctuation ==
    \/ \E code \in PunctuationSources : NewLexer(code)
    \/ NextToken

SpecPunctuation == InitScript /\ [][NextPunctuation]_vars

(***************************************************************************)
(* The analyzer driver: a host constructs a StaticAnalyzer over a type     *)
(* environment and hands it scripts.                                       *)
(***************************************************************************)
\* an expression of every type an assignment is analysed with
TypedText ==
    [long |-> <<"1">>, boolean |-> <<"t", "r", "u", "e">>, string |-> <<"'", "x", "'">>,
     any |-> <<"p", "(", "1", ")">>]

\* what x is bound to before the assignment: a type, or nothing
Previous == DOMAIN TypedText \cup {"none"}

RetypeName(old, new) == "retype_" \o old \o "_" \o new

\* let x = <old>; let y = x = <new>;
RetypeText ==
    [name \in {RetypeName(old, new) : old \in Previous, new \in DOMAIN TypedText} |->
        LET old == CHOOSE old \in Previous :
                        \E new \in DOMAIN TypedText : name = RetypeName(old, new)
            new == CHOOSE new \in DOMAIN TypedText : name = RetypeName(old, new)
        IN  (IF old = "none" THEN << >>
             ELSE <<"l", "e", "t", " ", "x", " ", "=", " ">> \o TypedText[old]
                      \o <<";", "\n">>)
            \o <<"l", "e", "t", " ", "y", " ", "=", " ", "x", " ", "=", " ">>
            \o TypedText[new] \o <<";">>]

\* the scripts a host hands to analyze
FixedText ==
    [let_ |->
         <<"l", "e", "t", " ", "a", " ", "=", " ", "1", ";", "\n", "l", "e",
           "t">>,
     if_ |->
         <<"l", "e", "t", " ", "a", " ", "=", " ", "1", ";", "\n", "l", "e",
           "t", " ", "b", " ", "=", " ", "2", ";", "\n", "\n", "i", "f">>,
     letNoAssign |->
         <<"l", "e", "t", " ", "a", " ", "1", ";">>,
     catch_ |->
         <<"l", "e", "t", " ", "a", " ", "=", " ", "1", ";", "\n", "\n", "t",
           "r", "y", " ", "{", "\n", "}", " ", "c", "a", "t", "c", "h", " ",
           "e", "(", ")", "{", "\n", "}">>,
     callOpen |->
         <<"p", "(", "1", ",", "\n">>,
     parenOpen |->
         <<"l", "e", "t", " ", "a", " ", "=", " ", "(", "1", "\n">>,
     blockOpen |->
         <<"i", "f", " ", "t", "r", "u", "e", " ", "{", "\n", "l", "e", "t",
           " ", "b", " ", "=", " ", "1", ";", "\n">>,
     paramsOpen |->
         <<"f", "n", " ", "f", "(", "a", " ", "{", "\n", "}">>,
     stringOpen |->
         <<"l", "e", "t", " ", "a", " ", "=", " ", "1", ";", "\n", "l", "e",
           "t", " ", "s", " ", "=", " ", "'", "a", "b", "c">>,
     assignThenEnd |->
         <<"l", "e", "t", " ", "a", " ", "=", "\n", ";">>,
     forNoIn |->
         <<"f", "o", "r", " ", "x", " ", "y", " ", "{", "\n", "}">>,
     lambdaOpen |->
         <<"l", "e", "t", " ", "f", " ", "=", "\n", "l", "a", "m", "b", "d",
           "a", "(", "x", ")", " ", "-", ">", " ", "x">>,
     ternaryOpen |->
         <<"t", "r", "u", "e", " ", "?", " ", "1">>,
     indexOpen |->
         <<"l", "e", "t", " ", "a", " ", "=", " ", "1", ";", "\n", "a", "[",
           "1">>,
     operand |->
         <<"l", "e", "t", " ", "a", " ", "=", " ", "1", ";", "\n", "l", "e",
           "t", " ", "b", " ", "=", " ", "2", ";", "\n", "l", "e", "t", " ",
           "c", " ", "=", " ", "u", ";">>,
     operandTwice |->
         <<"l", "e", "t", " ", "a", " ", "=", " ", "u", " ", "+", " ", "1",
           ";", "\n", "u">>,
     callee |->
         <<"l", "e", "t", " ", "a", " ", "=", " ", "1", ";", "\n", "u", "(",
           "a", ")">>,
     argument |->
         <<"p", "(", "1", ")", ";", "\n", "p", "(", "u", ")">>,
     inFn |->
         <<"f", "n", " ", "f", "(", "x", ")", " ", "{", "\n", "r", "e", "t",
           "u", "r", "n", " ", "x", " ", "+", " ", "u", ";", "\n", "}", "\n",
           "f", "(", "1", ")">>,
     inFor |->
         <<"f", "o", "r", " ", "i", " ", "i", "n", " ", "r", "a", "n", "g",
           "e", "(", "0", ",", " ", "3", ")", " ", "{", "\n", "p", "(", "i",
           " ", "+", " ", "u", ")", ";", "\n", "}">>,
     inLambda |->
         <<"l", "e", "t", " ", "f", " ", "=", " ", "l", "a", "m", "b", "d",
           "a", "(", "x", ")", " ", "-", ">", "\n", "x", " ", "+", " ", "u",
           " ", "e", "n", "d">>,
     inWhile |->
         <<"w", "h", "i", "l", "e", " ", "u", " ", "{", "\n", "b", "r", "e",
           "a", "k", ";", "\n", "}">>,
     resolved |->
         <<"l", "e", "t", " ", "a", " ", "=", " ", "1", ";", "\n", "f", "n",
           " ", "f", "(", "x", ")", " ", "{", "\n", "r", "e", "t", "u", "r",
           "n", " ", "x", " ", "+", " ", "a", ";", "\n", "}", "\n", "f", "(",
           "a", ")">>,
     implicit |->
         <<"a", " ", "=", " ", "1", ";", "\n", "a", " ", "+", " ", "1">>,
     environment |->
         <<"v", " ", "&", "&", " ", "n", " ", "=", "=", " ", "1">>,
     loopNames |->
         <<"f", "o", "r", " ", "k", ",", " ", "x", " ", "i", "n", " ", "r",
           "a", "n", "g", "e", "(", "0", ",", " ", "3", ")", " ", "{", "\n",
           "p", "(", "k", " ", "+", " ", "x", ")", ";", "\n", "}">>,
     andLong |->
         <<"l", "e", "t", " ", "b", " ", "=", " ", "2", ";", "\n", "l", "e",
           "t", " ", "c", " ", "=", " ", "1", ";", "\n", "b", " ", "=", "=",
           " ", "2", " ", "&", "&", " ", "c", " ", "=", " ", "1">>,
     orLeft |->
         <<"l", "e", "t", " ", "a", " ", "=", " ", "1", ";", "\n", "a", " ",
           "|", "|", "\n", "t", "r", "u", "e">>,
     andBoth |->
         <<"1", " ", "&", "&", " ", "'", "x", "'">>,
     andOk |->
         <<"l", "e", "t", " ", "a", " ", "=", " ", "t", "r", "u", "e", ";",
           "\n", "a", " ", "&", "&", " ", "1", " ", "<", " ", "2", " ", "|",
           "|", " ", "!", "a">>,
     notLong |->
         <<"l", "e", "t", " ", "a", " ", "=", " ", "1", ";", "\n", "!", "a">>,
     notLiteral |->
         <<"!", "1", " ", "&", "&", " ", "t", "r", "u", "e">>,
     andCall |->
         <<"s", "t", "r", "(", "1", ")", " ", "&", "&", "\n", "t", "r", "u",
           "e">>,
     ifLong |->
         <<"i", "f", " ", "1", " ", "+", " ", "2", " ", "{", "\n", "0", "\n",
           "}">>,
     ifCall |->
         <<"l", "e", "t", " ", "a", " ", "=", " ", "1", ";", "\n", "i", "f",
           " ", "c", "o", "u", "n", "t", "(", "a", ")", " ", "{", "\n", "0",
           "\n", "}">>,
     ifElse |->
         <<"i", "f", " ", "1", " ", "<", " ", "2", " ", "{", "\n", "1", "\n",
           "}", " ", "e", "l", "s", "i", "f", " ", "3", " ", "{", "\n", "2",
           "\n", "}", " ", "e", "l", "s", "e", " ", "{", "\n", "3", "\n",
           "}">>,
     ternaryLong |->
         <<"l", "e", "t", " ", "a", " ", "=", " ", "1", ";", "\n", "a", " ",
           "?", " ", "1", " ", ":", " ", "2">>,
     like |->
         <<"1", " ", "=", "~", " ", "'", "x", "'">>,
     mathAbs |->
         <<"l", "e", "t", " ", "a", " ", "=", " ", "1", ";", "\n", "m", "a",
           "t", "h", ".", "a", "b", "s", "(", "a", ")">>,
     member |->
         <<"l", "e", "t", " ", "o", " ", "=", " ", "1", ";", "\n", "o", ".",
           "m">>,
     memberChain |->
         <<"l", "e", "t", " ", "o", " ", "=", " ", "1", ";", "\n", "o", ".",
           "m", ".", "w">>,
     memberOfUnknown |->
         <<"l", "e", "t", " ", "a", " ", "=", " ", "1", ";", "\n", "u", ".",
           "m">>,
     memberCall |->
         <<"l", "e", "t", " ", "o", " ", "=", " ", "1", ";", "\n", "o", ".",
           "m", "(", "1", ")">>,
     valid |->
         <<"l", "e", "t", " ", "a", " ", "=", " ", "1", ".", "5", ";", "\n",
           "l", "e", "t", " ", "b", " ", "=", " ", "2", "N", " ", "+", " ",
           "3", "M", ";", "\n", "l", "e", "t", " ", "s", " ", "=", " ", "'",
           "x", "'", " ", "+", " ", "a", ";", "\n", "r", "e", "t", "u", "r",
           "n", " ", "s", ";">>]

\* scripts that bind names in the global scope, in blocks, in loops, in a
\* fn and in a lambda
ScopeText ==
    [letTop |->
         <<"l", "e", "t", " ", "a", " ", "=", " ", "1", ";">>,
     forItem |->
         <<"f", "o", "r", " ", "x", " ", "i", "n", " ", "r", "a", "n", "g",
           "e", "(", "0", ",", " ", "2", ")", " ", "{", "\n", "}">>,
     forIndex |->
         <<"f", "o", "r", " ", "i", ",", " ", "x", " ", "i", "n", " ", "r",
           "a", "n", "g", "e", "(", "0", ",", " ", "2", ")", " ", "{", "\n",
           "l", "e", "t", " ", "b", " ", "=", " ", "i", ";", "\n", "}">>,
     forEmpty |->
         <<"f", "o", "r", " ", "x", " ", "i", "n", " ", "t", "u", "p", "l",
           "e", "(", ")", " ", "{", "\n", "}">>,
     ifLet |->
         <<"i", "f", " ", "t", "r", "u", "e", " ", "{", "\n", "l", "e", "t",
           " ", "b", " ", "=", " ", "1", ";", "\n", "}">>,
     ifAssign |->
         <<"l", "e", "t", " ", "a", " ", "=", " ", "1", ";", "\n", "i", "f",
           " ", "t", "r", "u", "e", " ", "{", "\n", "a", " ", "=", " ", "2",
           ";", "\n", "b", " ", "=", " ", "1", ";", "\n", "}">>,
     whileLet |->
         <<"l", "e", "t", " ", "c", " ", "=", " ", "t", "r", "u", "e", ";",
           "\n", "w", "h", "i", "l", "e", " ", "c", " ", "{", "\n", "l", "e",
           "t", " ", "b", " ", "=", " ", "1", ";", "\n", "c", " ", "=", " ",
           "f", "a", "l", "s", "e", ";", "\n", "}">>,
     fnParam |->
         <<"f", "n", " ", "f", "(", "a", ")", " ", "{", "\n", "l", "e", "t",
           " ", "b", " ", "=", " ", "a", ";", "\n", "}", "\n", "f", "(", "1",
           ")", ";">>,
     lambdaParam |->
         <<"l", "e", "t", " ", "g", " ", "=", " ", "l", "a", "m", "b", "d",
           "a", "(", "a", ")", " ", "-", ">", " ", "a", " ", "e", "n", "d",
           ";", "\n", "g", "(", "1", ")", ";">>,
     forInFn |->
         <<"f", "n", " ", "f", "(", "a", ")", " ", "{", "\n", "f", "o", "r",
           " ", "x", " ", "i", "n", " ", "r", "a", "n", "g", "e", "(", "0",
           ",", " ", "a", ")", " ", "{", "\n", "}", "\n", "r", "e", "t", "u",
           "r", "n", " ", "x", ";", "\n", "}", "\n", "l", "e", "t", " ", "c",
           " ", "=", " ", "f", "(", "1", ")", ";">>]

\* scripts that bind a name, and scripts that read the name another binds
ReuseText ==
    [define |->
         <<"l", "e", "t", " ", "a", " ", "=", " ", "1", ";">>,
     use |->
         <<"a", " ", "+", " ", "1">>,
     assign |->
         <<"b", " ", "=", " ", "t", "r", "u", "e", ";">>,
     useAssigned |->
         <<"b", " ", "&", "&", " ", "t", "r", "u", "e">>,
     fn |->
         <<"f", "n", " ", "f", "(", "x", ")", " ", "{", "\n", "r", "e", "t",
           "u", "r", "n", " ", "x", ";", "\n", "}">>,
     call |->
         <<"f", "(", "1", ")">>,
     shadow |->
         <<"l", "e", "t", " ", "n", " ", "=", " ", "'", "x", "'", ";">>,
     useShadowed |->
         <<"n", " ", "&", "&", " ", "v">>]

AnalyzerText == FixedText @@ RetypeText @@ ScopeText @@ ReuseText

\* the comment lines a script starts with
Leads == 0..2

RECURSIVE Lead(_)
Lead(n) == IF n = 0 THEN << >> ELSE <<"#", "#", " ", "c", "\n">> \o Lead(n - 1)

AnalyzerSources ==
    [family : {"analyzer"}, text : DOMAIN FixedText, lead : Leads]
    \cup [family : {"analyzer"}, text : DOMAIN RetypeText \cup DOMAIN ScopeText, lead : {0}]
AnalyzerCode(src) == Lead(src.lead) \o AnalyzerText[src.text]

\* the TypeEnv of the host: none, or a boolean v and a long n
TypeEnvs == {<< >>, [v |-> "boolean", n |-> "long"]}

\* const analyzer = new StaticAnalyzer(env)
NewAnalyzer(env) ==
    /\ pc = "idle"
    /\ analyzer' = StaticAnalyzer(env)
    /\ result' = [analyses |-> 0, thrown |-> NoError, before |-> NoAnalyzer,
                  env |-> env]
    /\ pc' = "analyzer"
    /\ UNCHANGED <<source, handle, interp, runs, history, pendingVars, tokenizer, emitted>>

\* analyzer.analyze(code); what ScriptParser.parse threw inside it is kept
Analyze(src) ==
    /\ pc = "analyzer"
    /\ result.analyses < MaxAnalyses
    /\ \E A \in {StaticAnalyzer_analyze(analyzer, AnalyzerCode(src))} :
       analyzer' = A
    /\ result' = [analyses |-> result.analyses + 1,
                  thrown |-> ScriptParser_parse(AnalyzerCode(src)).S.error,
                  before |-> analyzer, env |-> result.env]
    /\ source' = src
    /\ UNCHANGED <<pc, handle, interp, runs, history, pendingVars, tokenizer, emitted>>

NextAnalyzer ==
    \/ \E env \in TypeEnvs : NewAnalyzer(env)
    \/ \E src \in AnalyzerSources : Analyze(src)

SpecAnalyzer == InitScript /\ [][NextAnalyzer]_vars

ReuseSources == [family : {"analyzer"}, text : DOMAIN ReuseText, lead : {0}]

\* analyzer.analyze(code) on an analyzer that may have analysed before
Reanalyze(src) ==
    /\ pc = "analyzer"
    /\ result.analyses < MaxReuse
    /\ \E A \in {StaticAnalyzer_analyze(analyzer, AnalyzerCode(src))} :
       analyzer' = A
    /\ result' = [analyses |-> result.analyses + 1,
                  thrown |-> ScriptParser_parse(AnalyzerCode(src)).S.error,
                  before |-> analyzer, env |-> result.env]
    /\ source' = src
    /\ UNCHANGED <<pc, handle, interp, runs, history, pendingVars, tokenizer, emitted>>

NextReuse ==
    \/ \E env \in TypeEnvs : NewAnalyzer(env)
    \/ \E src \in ReuseSources : Reanalyze(src)

SpecReuse == InitScript /\ [][NextReuse]_vars

(***************************************************************************)
(* Properties of the interpreter and of the script entry points.           *)
(***************************************************************************)
Events(kind) == {i \in DOMAIN interp.trace : interp.trace[i].ev = kind}
GlobalVariables == interp.heap[interp.globalScope].variables

\* C1: the script value is decided by the last top-level statement: nil when
\* it is an expression statement closed by a semicolon, the value of the
\* expression when it has no semicolon.
C1_Expected(last) ==
    CASE last \in {"expr", "assign"} -> NumV(3)
      [] last = "call" -> NumV(1)
      [] last = "literal" -> BoolV(TRUE)

C1_ScriptValue ==
    (pc = "executed" /\ source.family = "value") =>
        result = (IF source.semi THEN Nil ELSE C1_Expected(source.last))

\* C2: Pratt.parse of `x a y b z` is `x a (y b z)` when the left binding
\* power of a is below that of b, `(x a y) b z` when a and b have the same
\* left binding power and are left-associative, and `x ** (y ** z)` for two `**`.
RightAssociative == {"POW", "ASSIGN"}

C2_GroupsRight(p) ==
    Node2(p.a, OperandLeaf(p, 1), Node2(p.b, OperandLeaf(p, 2), OperandLeaf(p, 3)))

C2_GroupsLeft(p) ==
    Node2(p.b, Node2(p.a, OperandLeaf(p, 1), OperandLeaf(p, 2)), OperandLeaf(p, 3))

C2_Precedence ==
    (pc = "parsed" /\ source.family = "pair") =>
        LET bpa == INFIX_OPERATOR_LEFT_BINDING_POWER[source.a]
            bpb == INFIX_OPERATOR_LEFT_BINDING_POWER[source.b]
        IN  /\ bpa < bpb => result = C2_GroupsRight(source)
            /\ (bpa = bpb /\ {source.a, source.b} \cap RightAssociative = {}) =>
                    result = C2_GroupsLeft(source)
            /\ (source.a = "POW" /\ source.b = "POW") => result = C2_GroupsRight(source)

C2_Witness ==
    /\ pc = "parsed" /\ source.family = "pair"
    /\ source.a = "SUBTRACT" /\ source.b = "SUBTRACT"
    /\ source.operands = "number" /\ source.spacing = "spaced"
    /\ result = Node2("SUBTRACT", Node2("SUBTRACT", Num(1), Num(2)), Num(3))

\* C3: a closure call runs in a fresh child of the frame captured when the
\* closure was made, never of the caller's frame, and an assignment to a
\* captured variable persists: the k-th call of counter()'s closure returns k.
C3_ClosureCapture ==
    /\ \A i \in Events("enter") :
          LET e == interp.trace[i] IN
          e.requested # 0 =>
              /\ interp.heap[e.scope].parent = e.requested
              /\ e.scope \notin {interp.trace[j].scope : j \in Events("enter") \ {i}}
    /\ (pc = "executed" /\ source.family = "counter") => result = NumV(source.calls)

C3_Witness ==
    /\ pc = "executed" /\ source.family = "counter"
    /\ source.site = "fn" /\ source.calls >= 2
    /\ result = NumV(source.calls)
    /\ \E i \in Events("enter") :
          /\ interp.trace[i].requested # 0
          /\ interp.trace[i].requested # interp.trace[i].previous
          /\ "c" \in DOMAIN interp.heap[interp.trace[i].previous].variables

\* C4: when executeBlock or a closure call is over, by normal completion, by
\* a break/continue/return signal or by a thrown error, the current frame is
\* again the one that was current on entry; a let inside a block neither
\* changes nor leaves a binding in the enclosing frame.
C4_FrameRestored ==
    /\ \A i \in Events("exit") : interp.trace[i].current = interp.trace[i].previous
    /\ interp.currentScope = interp.globalScope
    /\ (pc = "executed" /\ source.family = "scope"
        /\ source.variant \in {"let", "letnew", "throw", "signal"}) =>
          /\ GlobalVariables["a"] = NumV(1)
          /\ "b" \notin DOMAIN GlobalVariables
          /\ source.variant = "let" => result = NumV(1)
          /\ source.variant \in {"letnew", "signal"} => result = Undefined

C4_Witness ==
    /\ pc = "executed" /\ source.family = "scope" /\ source.variant = "throw"
    /\ IsThrow(result)
    /\ \E i \in Events("exit") : interp.trace[i].how = "throw"
    /\ interp.currentScope = interp.globalScope

\* C8: in a two-name for loop over a sequence the index, each time the body
\* starts, is the zero-based position of the item, whether the earlier
\* iterations ended normally or by continue.
C8_IndexIsPosition ==
    \A i \in Events("iter") : interp.trace[i].index = NumV(interp.trace[i].position)

\* C9: a signal stops the statement list that raised it and travels out
\* through blocks and if-branches to its construct: break ends the innermost
\* loop, continue goes to its next iteration, return ends the fn call, which
\* yields the returned value.
C9_ExpectedLoop(p) ==
    CASE p.sig = "none" -> 11 * p.len
      [] p.sig = "break" -> 11 * (p.at - 1) + 1
      [] p.sig = "continue" -> 11 * (p.len - 1) + 1

C9_ExpectedNested(p) ==
    CASE p.sig = "break" -> 2 * (p.at - 1) + 20
      [] p.sig = "continue" -> 2 * (p.len - 1) + 20

C9_SignalPropagation ==
    pc = "executed" =>
        /\ source.family = "loop" => result = NumV(C9_ExpectedLoop(source))
        /\ source.family = "nested" => result = NumV(C9_ExpectedNested(source))
        /\ source.family = "return" => result = NumV(3)

C9_Witness ==
    /\ pc = "executed" /\ source.family = "loop"
    /\ source.sig = "break" /\ source.wrap = "block" /\ source.loop = "while"
    /\ source.at = 2 /\ source.len = 3
    /\ result = NumV(12)

\* C10: the i-th handle.execute(ci) returns what a fresh execute(s, ci)
\* returns; no binding of an earlier run is visible in a later one.
C10_HandleIsFresh ==
    \A i \in DOMAIN history :
        history[i].result = AviatorScript_execute(Code(source), history[i].context).v

C10_Witness ==
    /\ pc = "compiled" /\ runs = 2 /\ source.family = "leak"
    /\ source.variant = "assign"
    /\ history[1].context # history[2].context
    /\ history[1].result = NumV(1) /\ history[2].result = NumV(2)

(***************************************************************************)
(* Pending execution.  The children of the root are observed on the tree   *)
(* as it was before the last call: whether each can execute, and what it   *)
(* evaluates to (or throws).                                               *)
(***************************************************************************)
TypeError == Throw("type error: expected boolean result")
CannotExecute == Throw("cannot execute")

RootIsJunction == before.kind \in {"And", "Or"}
Absorbing == BoolV(before.kind = "Or")
CanLeft == canExecute(before.left).r
CanRight == canExecute(before.right).r
ValueLeft == executePending(before.left).r
ValueRight == executePending(before.right).r
BothCan == CanLeft = BoolV(TRUE) /\ CanRight = BoolV(TRUE)
ShortCircuit ==
    \/ CanLeft = BoolV(TRUE) /\ ValueLeft = Absorbing
    \/ CanRight = BoolV(TRUE) /\ ValueRight = Absorbing
\* L && R of an AndExecution, L || R of an OrExecution
LeftOpRight == IF IsThrow(ValueLeft) \/ ValueLeft = Absorbing THEN ValueLeft ELSE ValueRight
\* the child that alone can execute throws this when it is evaluated
ThrownByTheOne ==
    IF CanLeft = BoolV(TRUE) THEN ValueLeft ELSE ValueRight
OneThrows ==
    /\ ~BothCan
    /\ \/ CanLeft = BoolV(TRUE) /\ IsThrow(ValueLeft)
       \/ CanLeft # BoolV(TRUE) /\ CanRight = BoolV(TRUE) /\ IsThrow(ValueRight)
\* a child's canExecute() throws where the root asks it
CanThrows ==
    \/ IsThrow(CanLeft)
    \/ CanLeft = BoolV(TRUE) /\ IsThrow(CanRight)
    \/ CanLeft = BoolV(FALSE) /\ IsThrow(CanRight)
CanThrown == IF IsThrow(CanLeft) THEN CanLeft ELSE CanRight

\* C5 as stated: for an AndExecution (OrExecution) over L and R,
\* canExecute() is true iff both children can execute or one child can
\* execute and evaluates to false (true); execute() returns L and R (L or
\* R) in the first case, false (true) in the second, and throws "cannot
\* execute" in every other case.
C5_TruthTable ==
    (RootIsJunction /\ ~CanThrows) =>
        /\ calls.last.op = "canExecute" =>
                calls.last.r = BoolV(BothCan \/ ShortCircuit)
        /\ calls.last.op = "execute" =>
                calls.last.r = IF BothCan THEN LeftOpRight
                               ELSE IF ShortCircuit THEN Absorbing
                               ELSE CannotExecute

\* C5, amended: canExecute() is as stated, a child whose evaluation throws
\* evaluating to neither boolean; execute() returns L and R (L or R) in the
\* first case, false (true) in the second, and otherwise throws the error
\* that evaluating the one child that can execute throws, or "cannot
\* execute" when that child evaluates to a boolean or no child can
\* execute; once execute() has returned a value it returns that value.  An
\* error thrown by a child's canExecute() is thrown by both methods.
C5_TruthTableOrError ==
    RootIsJunction =>
        /\ calls.last.op = "canExecute" =>
                calls.last.r = IF CanThrows THEN CanThrown
                               ELSE BoolV(BothCan \/ ShortCircuit)
        /\ calls.last.op = "execute" =>
                calls.last.r = IF before.resultCache # Nil THEN before.resultCache
                               ELSE IF CanThrows THEN CanThrown
                               ELSE IF BothCan THEN LeftOpRight
                               ELSE IF ShortCircuit THEN Absorbing
                               ELSE IF OneThrows THEN ThrownByTheOne
                               ELSE CannotExecute

\* the one child that can execute is not a boolean, and execute() throws
\* the type error
C5_Witness ==
    /\ RootIsJunction /\ ~CanThrows /\ ~BothCan /\ OneThrows
    /\ calls.last.op = "execute"
    /\ calls.last.r = TypeError

\* C6: once canExecute() has returned true, no later provide(name, value),
\* for any name and value, changes what execute() returns.
C6_Monotonic ==
    (promise.made /\ ~IsThrow(promise.value)) =>
        executePending(pending).r = promise.value

RECURSIVE ValueNodes(_)
\* the ValueExecution nodes of a tree
ValueNodes(pe) ==
    CASE pe.kind = "Value" -> {pe}
      [] pe.kind \in {"And", "Or"} -> ValueNodes(pe.left) \cup ValueNodes(pe.right)
      [] pe.kind = "Not" -> ValueNodes(pe.child)
      [] pe.kind = "Conditional" ->
            ValueNodes(pe.condition) \cup ValueNodes(pe.thenExpr)
            \cup ValueNodes(pe.elseExpr)
      [] pe.kind = "none" -> {}

\* C7: the execute() calls that return all return the same value, and the
\* runtime's run() is entered at most once for a ValueExecution whose first
\* run returned a boolean, the probes of canExecute() included.
C7_Memoization ==
    /\ Cardinality(calls.returned) <= 1
    /\ \A node \in ValueNodes(pending) : node.firstRun.t = "bool" => node.runs <= 1

\* execute() returned twice after a canExecute() probe or an execute() ran a
\* ValueExecution to a boolean, with a provide in between
C7_Witness ==
    /\ calls.executes >= 2
    /\ calls.n > calls.executes
    /\ \E node \in ValueNodes(pending) : node.firstRun.t = "bool" /\ node.runs = 1

(***************************************************************************)
(* Properties of the lexer.                                                *)
(***************************************************************************)
\* the newline characters among the first n characters of a text
Newlines(code, n) == Cardinality({i \in 1..n : code[i] = "\n"})

\* C17: every token next() returns carries the line 1 + the number of
\* newline characters before its first character
C17_LineOfToken ==
    \A i \in DOMAIN emitted :
        emitted[i].token.line = 1 + Newlines(source, emitted[i].first)

\* the character of the text at position i, from 0
CharacterAt(code, i) == IF i < Len(code) THEN code[i + 1] ELSE NUL

\* token i is a dot right after an identifier
DotOfIdentifier(i) ==
    /\ i > 1
    /\ emitted[i].token.type = "DOT"
    /\ emitted[i - 1].token.type = "IDENTIFIER"
    /\ emitted[i - 1].token.end = emitted[i].token.start

\* C22: next() returns no DOT token for a dot that follows an identifier and
\* is not followed by an identifier-start character
C22_DotAfterIdentifier ==
    \A i \in DOMAIN emitted :
        DotOfIdentifier(i) => isIdentifierStart(CharacterAt(source, emitted[i].token.end))

\* next() call i reads a slash, and no earlier call has thrown
ReadsSlash(i) ==
    /\ CharacterAt(source, emitted[i].first) = "/"
    /\ \A j \in 1..(i - 1) : emitted[j].token.type # "Error"

\* the kind of the token returned before call i, EOF at the start of input
LastEmitted(i) == IF i = 1 THEN "EOF" ELSE emitted[i - 1].token.type

\* call i scans a regex literal from the slash: it returns the REGEX token
\* or throws for a literal without its closing slash
ScansRegex(i) ==
    /\ emitted[i].token.type \in {"REGEX", "Error"}
    /\ emitted[i].token.start = emitted[i].first

\* C23: a slash gives a DIVIDE token iff the last returned token is a
\* number, an identifier, a right parenthesis or a right bracket; after any
\* other token and at the start of input it starts a regex literal
C23_SlashAfter ==
    \A i \in DOMAIN emitted :
        ReadsSlash(i) =>
            IF LastEmitted(i) \in {"NUMBER", "IDENTIFIER", "RIGHT_PAREN", "RIGHT_BRACKET"}
            THEN emitted[i].token = Token("DIVIDE", "/", emitted[i].first,
                                          emitted[i].first + 1, emitted[i].token.line)
            ELSE ScansRegex(i)

\* a division after a right bracket, then a regex literal after the division
C23_Witness ==
    /\ pc = "lexing"
    /\ source = <<"]", "/", "/", "a", "/">>
    /\ Len(emitted) = 3
    /\ emitted[2].token.type = "DIVIDE"
    /\ emitted[3].token.type = "REGEX"

(***************************************************************************)
(* Properties of the analyzer.                                             *)
(***************************************************************************)
Analysed == pc = "analyzer" /\ result.analyses > 0

RECURSIVE TokensFrom(_)
\* the tokens a lexer returns from here on, up to its EOF token or its throw
TokensFrom(L) ==
    LET L1 == invoke([method |-> "AviatorLexer.next", lexer |-> L]) IN
    IF L1.lastToken.type \in {"EOF", "Error"} THEN <<L1.lastToken>>
    ELSE <<L1.lastToken>> \o TokensFrom(L1)

Tokens(code) == TokensFrom(AviatorLexer(code))
EofToken(code) == Tokens(code)[Len(Tokens(code))]

\* the scripts that end where the parser expects one more token
EndOfInput ==
    {"let_", "if_", "callOpen", "parenOpen", "blockOpen", "lambdaOpen", "ternaryOpen",
     "indexOpen"}

\* C11: analyze of a script with a syntax error returns exactly one
\* diagnostic, an error, at the line of the token the ParseError carries,
\* which is a token of the script, and the EOF token when the script ends
\* where a token is expected
C11_SyntaxErrorDiagnostic ==
    (Analysed /\ result.thrown # NoError) =>
        /\ Len(analyzer.diagnostics) = 1
        /\ analyzer.diagnostics[1].severity = Error
        /\ result.thrown.name = "ParseError" =>
            /\ \E i \in DOMAIN Tokens(AnalyzerCode(source)) :
                   Tokens(AnalyzerCode(source))[i] = result.thrown.token
            /\ analyzer.diagnostics[1].line = result.thrown.token.line
        /\ source.text \in EndOfInput =>
            /\ result.thrown.name = "ParseError"
            /\ result.thrown.token.type = "EOF"
            /\ analyzer.diagnostics[1].line = EofToken(AnalyzerCode(source)).line

C11_Witness ==
    /\ Analysed
    /\ result.thrown.name = "ParseError"
    /\ result.thrown.token.type = "EOF"
    /\ source.text = "blockOpen" /\ source.lead = 2
    /\ analyzer.diagnostics = <<[message |-> "Expect '}'", line |-> 5, severity |-> Error]>>

\* the lines of the tokens of that type and lexeme, in the order of the text
LinesOf(code, type, lexeme) ==
    LET these == SelectSeq(Tokens(code), LAMBDA t : t.type = type /\ t.lexeme = lexeme)
    IN  [i \in DOMAIN these |-> these[i].line]

\* the analysed script parsed: its diagnostics are those of analyzeBlock
AnalysedBlock == Analysed /\ result.thrown = NoError

\* C12: every diagnostic analyze returns has a line that is at least 1 and
\* is the line of a token of the script, whatever expression it is about
C12_LineOfDiagnostic ==
    Analysed =>
        \A i \in DOMAIN analyzer.diagnostics :
            /\ analyzer.diagnostics[i].line >= 1
            /\ \E j \in DOMAIN Tokens(AnalyzerCode(source)) :
                   Tokens(AnalyzerCode(source))[j].line = analyzer.diagnostics[i].line

\* the scripts whose only flaw is the identifier u, which no scope defines
UsesUndefined ==
    {"operand", "operandTwice", "callee", "argument", "inFn", "inFor", "inLambda",
     "inWhile"}

\* the scripts in which every identifier resolves: built-in, let, fn,
\* parameter, loop variable or assigned name
Resolves == {"resolved", "implicit", "loopNames", "mathAbs", "valid"}

UndefinedVariable(name, line) ==
    [message |-> "Undefined variable '" \o name \o "'", line |-> line, severity |-> Error]

\* C13: each occurrence of an identifier that resolves in no scope gives
\* exactly one diagnostic, Undefined variable at the line of its token, as
\* operand, argument or callee, and nothing further; identifiers that
\* resolve give none
C13_UndefinedVariable ==
    AnalysedBlock =>
        /\ source.text \in UsesUndefined =>
               analyzer.diagnostics =
                   [i \in DOMAIN LinesOf(AnalyzerCode(source), "IDENTIFIER", "u") |->
                       UndefinedVariable("u", LinesOf(AnalyzerCode(source), "IDENTIFIER", "u")[i])]
        /\ source.text \in Resolves => analyzer.diagnostics = << >>
        /\ (source.text = "environment" /\ "v" \in DOMAIN result.before.scopes[1].symbols) =>
               analyzer.diagnostics = << >>

\* the scripts with && or || whose operands are boolean or any
LogicOk == {"andOk", "inWhile"}

\* the scripts with one ! whose operand is a long
NotOfLong == {"notLong", "notLiteral"}

\* C14: &&, || and ! emit one error per operand whose type is neither
\* boolean nor any, and none when every operand is boolean or any
C14_LogicOperands ==
    AnalysedBlock =>
        /\ source.text = "andLong" =>
               analyzer.diagnostics =
                   <<[message |-> "Right operand of '&&' must be boolean, got long",
                      line |-> LinesOf(AnalyzerCode(source), "LOGIC_AND", "&&")[1],
                      severity |-> Error]>>
        /\ source.text = "andBoth" =>
               /\ Len(analyzer.diagnostics) = 2
               /\ \A i \in 1..2 : analyzer.diagnostics[i].severity = Error
        /\ source.text = "orLeft" =>
               /\ Len(analyzer.diagnostics) = 1
               /\ analyzer.diagnostics[1].message =
                      "Left operand of '||' must be boolean, got long"
        /\ source.text \in LogicOk =>
               \A i \in DOMAIN analyzer.diagnostics :
                   analyzer.diagnostics[i].message = "Undefined variable 'u'"
        /\ source.text \in NotOfLong =>
               /\ Len(analyzer.diagnostics) = 1
               /\ analyzer.diagnostics[1].severity = Error

\* C16: a dotted name the symbol table defines gives no diagnostic;
\* otherwise only an unknown root identifier is reported, never the member
\* names right of a dot
C16_DotAccess ==
    AnalysedBlock =>
        /\ source.text = "mathAbs" => analyzer.diagnostics = << >>
        /\ source.text \in {"member", "memberChain"} => analyzer.diagnostics = << >>
        /\ source.text = "memberOfUnknown" =>
               analyzer.diagnostics =
                   <<UndefinedVariable("u", LinesOf(AnalyzerCode(source), "IDENTIFIER", "u")[1])>>

(***************************************************************************)
(* Properties of the printer.                                              *)
(***************************************************************************)
\* C15: the text toString gives for a tree Pratt.parse produced parses, and
\* to a tree equal to it: same node kinds, operators and operand order
C15_RoundTrip ==
    (pc = "parsed" /\ ~IsError(result)) => Pratt_parse(toString(result)) = result

(***************************************************************************)
(* Properties of assignment, evaluation order and for over a Map.          *)
(***************************************************************************)
Assigned == pc = "executed" /\ source.family = "assign"
\* the sites at which the current scope is the global scope, or c exists
AtGlobal == {"top", "existing"}

C19_Expected ==
    [binary |-> 12, nested |-> 1234, compare |-> 12, call |-> 123, subscript |-> 12,
     ternary |-> 12, assign |-> 12, assignSubscript |-> 123, assignDot |-> 12]

\* C19: the operands of every operator node, of an assignment to a
\* subscript or a dot access included, and the arguments of every call are
\* evaluated from left to right
C19_LeftToRight ==
    (pc = "executed" /\ source.family = "order") =>
        GlobalVariables["n"] = NumV(C19_Expected[source.shape])

\* C20: over a Map, for k, v binds k to the key and v to the value of the
\* entry, and for v binds v to the { key, value } of the entry
C20_ForOverMap ==
    (pc = "executed" /\ source.family = "formap") =>
        /\ (source.names = 2 /\ source.read = "index") => result = NumV(2)
        /\ (source.names = 2 /\ source.read = "item") => result = NumV(5)
        /\ (source.names = 1 /\ source.read = "item") => result = EntryV(NumV(2), NumV(5))
        /\ (source.names = 1 /\ source.read = "key") => result = NumV(2)
        /\ (source.names = 1 /\ source.read = "value") => result = NumV(5)

(***************************************************************************)
(* Properties of the identifiers of a ValueExecution.                      *)
(***************************************************************************)
RECURSIVE ChainRoot(_)
\* the root identifier of a chain root.m1.m2..., or "" when e is no such chain
ChainRoot(e) ==
    IF e.k = "Leaf" THEN (IF e.type = "IDENTIFIER" THEN e.lexeme ELSE "")
    ELSE IF e.k = "Node" /\ e.op = "DOT" /\ e.operands[2].k = "Leaf"
            /\ e.operands[2].type = "IDENTIFIER"
    THEN ChainRoot(e.operands[1])
    ELSE ""

RECURSIVE Referenced(_, _)
\* the identifiers e references that no lambda parameter of bound binds and
\* that are no built-in; a chain rooted at an identifier counts as its root
Referenced(e, bound) ==
    CASE e.k = "Leaf" ->
            IF e.type = "IDENTIFIER" THEN ({e.lexeme} \ bound) \ getBuiltinIdentifiers
            ELSE {}
      [] e.k = "Node" /\ ChainRoot(e) # "" -> ({ChainRoot(e)} \ bound) \ getBuiltinIdentifiers
      [] e.k = "Node" /\ ChainRoot(e) = "" ->
            UNION {Referenced(e.operands[i], bound) : i \in DOMAIN e.operands}
      [] e.k = "FunctionCall" ->
            Referenced(e.func, bound)
            \cup UNION {Referenced(e.args[i], bound) : i \in DOMAIN e.args}
      [] e.k = "LambdaFunction" ->
            Referenced(e.body, bound \cup {e.parameters[i] : i \in DOMAIN e.parameters})

\* C21: the identifiers of a ValueExecution are the identifiers its tree
\* references that no enclosing lambda parameter binds and that are no
\* built-in, a chain rooted at an identifier giving one name and none for
\* the members right of a dot
C21_FreeIdentifiers ==
    pc = "extracted" => pending.identifiers = Referenced(pending.node, {})

(***************************************************************************)
(* Properties of the symbol tables of the analyzer.                        *)
(***************************************************************************)
\* the type analyzeExpr gives the expression TypedText[type]
TypeOfText == [type \in DOMAIN TypedText |-> type]

\* C24: after the assignment x = e the global table binds x to the type of
\* e, whatever x was bound to before, and y, which let binds to the
\* assignment, to the type of e as well
C24_AssignRebinds ==
    \A old \in Previous, new \in DOMAIN TypedText :
        (Analysed /\ source.text = RetypeName(old, new)) =>
            /\ analyzer.diagnostics = << >>
            /\ analyzer.scopes[1].symbols["x"] = TypeOfText[new]
            /\ analyzer.scopes[1].symbols["y"] = TypeOfText[new]

\* the names the scripts of ScopeText bind
ScopeNames == {"a", "b", "c", "f", "g", "i", "x"}

\* the Interpreter after AviatorScript.execute of the analysed script
Executed(code) ==
    executeStatements(ScriptParser_parse(code).statements, Interpreter(builtinFunctions)).I

\* C25: at the end of a script a name is resolvable in the analyzer iff it
\* is resolvable at run time: names bound by let at the top level and by
\* fn are, names bound in a block, in a loop, as a loop variable or as a
\* parameter are not
C25_MirrorsRuntime ==
    \A text \in DOMAIN ScopeText :
        (Analysed /\ source.text = text) =>
            LET I == Executed(AnalyzerCode(source)) IN
            \A name \in ScopeNames :
                SymbolTable_resolve(analyzer, 1, name) # ""
                    <=> FindScope(I, I.currentScope, name) # 0

(***************************************************************************)
(* Properties of the expressions of ScriptParser.                          *)
(***************************************************************************)
RECURSIVE Plain(_)
\* the tree without the lines of its tokens
Plain(e) ==
    CASE e.k = "Leaf" -> Leaf(e.type, e.lexeme)
      [] e.k = "Node" ->
            [k |-> "Node", op |-> e.op,
             operands |-> [i \in DOMAIN e.operands |-> Plain(e.operands[i])]]
      [] e.k = "FunctionCall" ->
            FunctionCall(Plain(e.func), [i \in DOMAIN e.args |-> Plain(e.args[i])])
      [] e.k = "LambdaFunction" -> LambdaFunction(e.parameters, Plain(e.body))
      [] OTHER -> e

\* C26: the expression ScriptParser parses from a text is the tree
\* Pratt.parse gives for it, and both throw when one throws; a lambda with no
\* parameter included
C26_SameAsPratt ==
    pc = "parsed" =>
        LET got == expression(ScriptParser(PrattCode(source))) IN
        IF Ok(got.S) THEN ~IsError(result) /\ Plain(got.e) = result
        ELSE IsError(result)

(***************************************************************************)
(* Properties of the precedence of the first operator.                     *)
(***************************************************************************)
\* C27: in x b y a z, where a and b are binary operators other than `=` and
\* the left binding power of a is below that of b, the operator b completes
\* first: the tree is (x b y) a z.  In the text of a pair the first operator
\* is source.a, so it has the role of b
C27_TighterFirst ==
    (/\ pc = "parsed" /\ source.family = "pair"
     /\ "ASSIGN" \notin {source.a, source.b}
     /\ INFIX_OPERATOR_LEFT_BINDING_POWER[source.b]
            < INFIX_OPERATOR_LEFT_BINDING_POWER[source.a]) =>
        result = C2_GroupsLeft(source)

(***************************************************************************)
(* Properties of early determination.                                      *)
(***************************************************************************)
RECURSIVE Truth(_, _)
\* the value of the expression of a tree under an assignment of booleans to
\* its variables
Truth(pe, assignment) ==
    CASE pe.kind = "Value" -> assignment[pe.node.lexeme]
      [] pe.kind = "And" -> Truth(pe.left, assignment) /\ Truth(pe.right, assignment)
      [] pe.kind = "Or" -> Truth(pe.left, assignment) \/ Truth(pe.right, assignment)
      [] pe.kind = "Not" -> ~Truth(pe.child, assignment)
      [] pe.kind = "Conditional" ->
            IF Truth(pe.condition, assignment) THEN Truth(pe.thenExpr, assignment)
            ELSE Truth(pe.elseExpr, assignment)

\* the assignments that extend what has been provided
Extensions(pe) ==
    {assignment \in [Variables -> BOOLEAN] :
        \A symbol \in DOMAIN Given(pe) : BoolV(assignment[symbol]) = Given(pe)[symbol]}

\* C28: when canExecute() has returned true and every variable has been
\* provided at most once, execute() returns the value of the expression
\* under every assignment that extends the provided one
C28_EarlyDetermination ==
    (pc = "pending" /\ calls.last.op = "canExecute" /\ calls.last.r = BoolV(TRUE)) =>
        \A assignment \in Extensions(pending) :
            executePending(pending).r = BoolV(Truth(pending, assignment))

\* canExecute() has returned true for (a ? b : c) || !b with b alone provided
C28_Witness ==
    /\ pc = "pending" /\ source.text = "guarded"
    /\ calls.last.op = "canExecute" /\ calls.last.r = BoolV(TRUE)
    /\ DOMAIN Given(pending) = {"b"}
    /\ executePending(pending).r = BoolV(TRUE)

(***************************************************************************)
(* Properties of an analyzer used again.                                   *)
(***************************************************************************)
\* C29: every analyze call returns the diagnostics a fresh analyzer over the
\* same environment returns for the code, whatever the analyzer has
\* analysed before
C29_FreshEachCall ==
    Analysed =>
        analyzer.diagnostics
            = StaticAnalyzer_analyze(StaticAnalyzer(result.env), AnalyzerCode(source)).diagnostics

(***************************************************************************)
(* Properties of the values a host receives.                               *)
(***************************************************************************)
\* C30: the value execute returns, of a script and of a compiled handle, is
\* no ControlFlowSignal, and neither is a value a fn closure returned to the
\* script, which the script would then return or bind
C30_NoSignalEscapes ==
    pc \in {"executed", "compiled"} =>
        /\ ~IsSignal(result)
        /\ \A name \in DOMAIN GlobalVariables : ~IsSignal(GlobalVariables[name])

====
